---- MODULE Spec2Model ----
(***************************************************************************)
(* Verification model of the LSLT WiFi loyalty portal: the loyalty tier    *)
(* function (utils/loyalty.js), voucher redemption (utils/vouchers.js),    *)
(* the captive-portal middleware and the abuse middleware (both shipped    *)
(* in README.md) and the guest signup/login routes (routes/auth.js).       *)
(*                                                                         *)
(* Each subsystem has its own specification over the shared variables:     *)
(*   SpecTier        calculateLoyaltyTier applied to bounded inputs        *)
(*   SpecVoucher     redeemVoucher, one call at a time                     *)
(*   SpecVoucherConc redeemVoucher, calls interleaved at their awaits      *)
(*   SpecPortal      probes through captivePortalMiddleware                *)
(*   SpecAttempts    trackFailedAttempt, clearFailedAttempts, unban timers *)
(*   SpecAbuse       requests through the captive and abuse middleware     *)
(*   SpecAuth        POST /signup and POST /login                          *)
(***************************************************************************)
EXTENDS Integers, Sequences, FiniteSets, TLC

(***************************************************************************)
(* Bounds of the model                                                     *)
(***************************************************************************)
\* largest visit count fed to the tier function
MaxVisitCount == 1000
\* the clock of the voucher specifications runs 0..MaxVoucherTime
MaxVoucherTime == 3
\* number of redeemVoucher calls that may be in flight together
MaxCalls == 2
\* the clock of the portal specification runs 0..MaxPortalTime
MaxPortalTime == 1
\* the clock of the abuse specifications makes at most MaxAbuseTicks steps
MaxAbuseTicks == 4
\* number of trackFailedAttempt calls of a behaviour
MaxAttempts == 4
\* requests of a behaviour per connection address
MaxTrackedRequests == 2
\* number of Visit rows the signup and login routes may create
MaxVisits == 2
\* requests of a behaviour during which a repository call throws
MaxFaults == 1
\* POST /login requests in flight together
MaxLogins == 2
\* trackFailedAttempt calls in flight together
MaxTracks == 3
\* checkRewards calls in flight together
MaxAwards == 2
\* redirects a client follows one after another
MaxHops == 2
\* steps of the clock of the visit specification
MaxVisitTicks == 1
\* steps of the clock of the reward specification
MaxAwardTicks == 2

(***************************************************************************)
(* State                                                                   *)
(***************************************************************************)
VARIABLES
  tierIn,        \* argument of the last calculateLoyaltyTier call
  tierOut,       \* its result ("none" before the call)
  now,           \* the wall clock (Date.now(), moment())
  vouchers,      \* Voucher table: code -> row
  lastRedeem,    \* the last completed redeemVoucher call, with the table before and after
  calls,         \* redeemVoucher calls in flight: call id -> frame
  users,         \* User table: id -> row
  devices,       \* Device table: macAddress (unique) -> row
  lastProbe,     \* the last request captivePortalMiddleware saw, and its answer
  staff,         \* Staff table: id -> row
  attemptStore,  \* middleware/abuse.js attemptStore: key -> entries (<<>> when absent)
  blockedIps,    \* middleware/abuse.js blockedIps
  timers,        \* pending setTimeout callbacks of blockIp: [ip, due]
  failures,      \* per attempt key, the times of the failures tracked since the last clear
  lastTrack,     \* the last trackFailedAttempt call
  lastReq,       \* the last request the server saw, and how it was answered
  injectionBan,  \* per IP, when a request of its was refused as an injection (-1: never)
  visits,        \* number of rows of the Visit table
  lastAuth,      \* the last signup or login request, and its answer
  logins,        \* POST /login requests in flight: call id -> frame
  tracks,        \* trackFailedAttempt calls in flight: call id -> frame
  awards         \* checkRewards calls in flight: call id -> frame

tierVars == <<tierIn, tierOut>>
voucherVars == <<vouchers, lastRedeem, calls>>
repoVars == <<users, devices>>
portalVars == <<lastProbe>>
abuseVars == <<staff, attemptStore, blockedIps, timers, failures, lastTrack, lastReq,
               injectionBan>>
authVars == <<visits, lastAuth>>
concVars == <<logins, tracks, awards>>
\* what the actions of one subsystem leave alone
tierFrame == <<now, voucherVars, repoVars, portalVars, abuseVars, authVars, concVars>>
voucherFrame == <<tierVars, repoVars, portalVars, abuseVars, authVars, concVars>>
portalFrame == <<tierVars, voucherVars, abuseVars, authVars, concVars>>
abuseFrame == <<tierVars, voucherVars, portalVars, authVars, concVars>>
authFrame == <<tierVars, portalVars, lastRedeem, calls, lastReq, injectionBan, concVars>>
vars == <<tierIn, tierOut, now, vouchers, lastRedeem, calls, users, devices, lastProbe,
          staff, attemptStore, blockedIps, timers, failures, lastTrack, lastReq,
          injectionBan, visits, lastAuth, logins, tracks, awards>>

(***************************************************************************)
(* utils/loyalty.js: tiers                                                 *)
(***************************************************************************)
\* LOYALTY_TIERS in insertion order, the order Object.entries iterates it
LOYALTY_TIERS ==
  << [tier |-> "Bronze",   minVisits |-> 0,  maxVisits |-> 4],
     [tier |-> "Silver",   minVisits |-> 5,  maxVisits |-> 14],
     [tier |-> "Gold",     minVisits |-> 15, maxVisits |-> 29],
     [tier |-> "Platinum", minVisits |-> 30, maxVisits |-> 999] >>

\* the first band of LOYALTY_TIERS, from index i on, that holds visitCount
RECURSIVE tierFrom(_, _)
tierFrom(visitCount, i) ==
  IF i > Len(LOYALTY_TIERS) THEN "Bronze"   \* default fallback
  ELSE IF visitCount >= LOYALTY_TIERS[i].minVisits
          /\ visitCount <= LOYALTY_TIERS[i].maxVisits
       THEN LOYALTY_TIERS[i].tier
       ELSE tierFrom(visitCount, i + 1)

calculateLoyaltyTier(visitCount) == tierFrom(visitCount, 1)

\* the documented bands: README "Tier Structure", Platinum is "30+ visits"
TierBand(v) ==
  IF v <= 4 THEN "Bronze"
  ELSE IF v <= 14 THEN "Silver"
  ELSE IF v <= 29 THEN "Gold"
  ELSE "Platinum"

TierRank(t) ==
  CASE t = "Bronze" -> 0 [] t = "Silver" -> 1 [] t = "Gold" -> 2 [] t = "Platinum" -> 3

(***************************************************************************)
(* utils/vouchers.js: redeemVoucher                                        *)
(***************************************************************************)
Codes == {"RW1", "RW2"}
StaffIds == {"s1", "s2"}
NULL == "null"

NoVoucher == [exists |-> FALSE, isRedeemed |-> FALSE, redeemedAt |-> NULL,
              redeemedBy |-> NULL, expiryDate |-> 0, type |-> NULL, userId |-> NULL,
              value |-> NULL, createdAt |-> 0]

\* a Voucher row as generateVoucher stores it: not redeemed, with its expiry date
FreshVoucher(expiry) ==
  [exists |-> TRUE, isRedeemed |-> FALSE, redeemedAt |-> NULL,
   redeemedBy |-> NULL, expiryDate |-> expiry, type |-> "reward", userId |-> NULL,
   value |-> NULL, createdAt |-> 0]

\* moment().isAfter(moment(voucher.expiryDate))
isExpired(voucher, t) == t > voucher.expiryDate

\* redeemDecision with the expiry check ahead of the redeemed check
redeemDecisionExpiryFirst(voucher, t) ==
  IF ~voucher.exists THEN "Voucher not found"
  ELSE IF t > voucher.expiryDate THEN "Voucher expired"
  ELSE IF voucher.isRedeemed THEN "Voucher already redeemed"
  ELSE "update"

\* the checks of redeemVoucher on the row findOne returned, in the code's order;
\* "update" means the call goes on to voucher.update
redeemDecision(voucher, t) ==
  IF ~voucher.exists THEN "Voucher not found"
  ELSE IF voucher.isRedeemed THEN "Voucher already redeemed"
  ELSE IF isExpired(voucher, t) THEN "Voucher expired"
  ELSE "update"

\* voucher.update({ isRedeemed: true, redeemedAt: new Date(), redeemedBy: staffId })
markRedeemed(voucher, t, staffId) ==
  [voucher EXCEPT !.isRedeemed = TRUE, !.redeemedAt = t, !.redeemedBy = staffId]

NoCall == [pc |-> "idle", code |-> NULL, staffId |-> NULL, at |-> 0, result |-> NULL]
NoRedeem == [code |-> NULL, staffId |-> NULL, at |-> 0, result |-> NULL,
             before |-> [code \in Codes |-> NoVoucher],
             after |-> [code \in Codes |-> NoVoucher]]

\* redeemVoucher as one uninterrupted call: findOne, the checks, voucher.update
RedeemVoucher(code, staffId) ==
  LET voucher == vouchers[code]
      decision == redeemDecision(voucher, now)
      updated == markRedeemed(voucher, now, staffId)
  IN /\ IF decision = "update"
        THEN /\ vouchers' = [vouchers EXCEPT ![code] = updated]
             /\ lastRedeem' = [code |-> code, staffId |-> staffId, at |-> now,
                               result |-> "success", before |-> vouchers,
                               after |-> vouchers']
        ELSE /\ vouchers' = vouchers
             /\ lastRedeem' = [code |-> code, staffId |-> staffId, at |-> now,
                               result |-> decision, before |-> vouchers,
                               after |-> vouchers]
     /\ UNCHANGED <<now, calls, voucherFrame>>

\* redeemVoucher up to its second await: the row findOne read, and the checks on it
RedeemRead(c, code, staffId) ==
  /\ calls[c].pc = "idle"
  /\ LET decision == redeemDecision(vouchers[code], now)
     IN calls' = [calls EXCEPT ![c] =
          [pc |-> IF decision = "update" THEN "updating" ELSE "done",
           code |-> code, staffId |-> staffId, at |-> now,
           result |-> IF decision = "update" THEN NULL ELSE decision]]
  /\ UNCHANGED <<now, vouchers, lastRedeem, voucherFrame>>

\* the UPDATE that voucher.update issued reaches the table; the call returns success
RedeemWrite(c) ==
  /\ calls[c].pc = "updating"
  /\ vouchers' = [vouchers EXCEPT ![calls[c].code] =
                    markRedeemed(@, calls[c].at, calls[c].staffId)]
  /\ calls' = [calls EXCEPT ![c].pc = "done", ![c].result = "success"]
  /\ UNCHANGED <<now, lastRedeem, voucherFrame>>

\* time passes
VoucherTick ==
  /\ now < MaxVoucherTime
  /\ now' = now + 1
  /\ UNCHANGED <<vouchers, lastRedeem, calls, voucherFrame>>

(***************************************************************************)
(* Repository rows (models/index.js)                                       *)
(***************************************************************************)
UserIds == {"u1", "u2"}

\* identifiers a request can present as its device: two well-formed hardware
\* addresses, a connection address, and a header value of five octets only
MAC1 == "AA:BB:CC:DD:EE:01"
MAC2 == "aa-bb-cc-dd-ee-02"
IP1 == "10.0.0.7"
IP2 == "10.0.0.8"
ShortMac == "AA:BB:CC:DD:EE"
WellFormedMacs == {MAC1, MAC2}
MAC3 == "AA:BB:CC:DD:EE:03"
Identifiers == {MAC1, MAC2, IP1, IP2, ShortMac}

NoUser == [exists |-> FALSE, email |-> NULL, dateOfBirth |-> NULL, visitCount |-> 0,
           loyaltyTier |-> "Bronze", isBlocked |-> FALSE]
NoDevice == [exists |-> FALSE, userId |-> NULL, isActive |-> FALSE, isBlocked |-> FALSE,
             lastSeen |-> 0, createdAt |-> 0, failedAttempts |-> 0,
             registeredFrom |-> NULL]
NoStaff == [exists |-> FALSE, isBlocked |-> FALSE, failedAttempts |-> 0]
StaffRow == [exists |-> TRUE, isBlocked |-> FALSE, failedAttempts |-> 0]

\* a stored User row: loyaltyTier is the tier the routes stored with visitCount
UserRow(email, dateOfBirth, visitCount, isBlocked) ==
  [exists |-> TRUE, email |-> email, dateOfBirth |-> dateOfBirth,
   visitCount |-> visitCount, loyaltyTier |-> calculateLoyaltyTier(visitCount),
   isBlocked |-> isBlocked]

\* a stored Device row, created (and last seen) at time lastSeen; the table
\* has no column for the address a device was registered from:
\* registeredFrom is what the model remembers of it (NULL: nothing)
DeviceRow(userId, isActive, isBlocked, lastSeen) ==
  [exists |-> TRUE, userId |-> userId, isActive |-> isActive, isBlocked |-> isBlocked,
   lastSeen |-> lastSeen, createdAt |-> lastSeen, failedAttempts |-> 0,
   registeredFrom |-> NULL]

\* the row of a device registered at time t by a request from address ip
RegisteredDevice(userId, t, ip) ==
  [DeviceRow(userId, TRUE, FALSE, t) EXCEPT !.registeredFrom = ip]

(***************************************************************************)
(* middleware/captive.js (README.md 377-747): captive portal detection     *)
(***************************************************************************)
\* request paths of the model
Paths == {"/generate_204", "/hotspot-detect.html", "/library/test/success.html",
          "/connectivity-check.html", "/connecttest.txt", "/ncsi.txt",
          "/wifi/hotspot/status", "/portal", "/api/auth/login"}

UserAgents == {"Mozilla/5.0 (Linux; Android 14)", "CaptiveNetworkSupport-443.0 wispr"}

captivePortalPaths ==
  {"/generate_204", "/hotspot-detect.html", "/library/test/success.html",
   "/connectivity-check.html", "/connecttest.txt", "/redirect", "/success.txt",
   "/ncsi.txt"}

captivePortalUserAgents ==
  {"CaptiveNetworkSupport", "Microsoft NCSI",
   "Mozilla/5.0 (Windows NT 10.0; Win64; x64) AppleWebKit/537.36 (KHTML, like Gecko) Chrome/70.0.3538.102 Safari/537.36 Edge/18.18363",
   "wispr"}

\* String.prototype.includes on the paths and user agents of the model
includes(text, part) ==
  \/ text = part
  \/ part = "hotspot" /\ text \in {"/hotspot-detect.html", "/wifi/hotspot/status"}
  \/ part = "connectivity" /\ text = "/connectivity-check.html"
  \/ part \in {"CaptiveNetworkSupport", "wispr"}
       /\ text = "CaptiveNetworkSupport-443.0 wispr"

isCaptivePortalRequest(path, userAgent) ==
  \/ path \in captivePortalPaths
  \/ \E agent \in captivePortalUserAgents : includes(userAgent, agent)
  \/ includes(path, "hotspot")
  \/ includes(path, "captive")
  \/ includes(path, "connectivity")

\* /^([0-9A-Fa-f]{2}[:-]){5}([0-9A-Fa-f]{2})$/ on the identifiers of the model
isValidMacAddress(mac) == mac \in WellFormedMacs

\* the four header sources of extractDeviceInfo, in its order
PortalMacHeaders == <<"x-client-mac", "x-forwarded-mac", "mac-address", "x-real-mac">>

RECURSIVE firstValidMac(_, _, _)
firstValidMac(headers, names, i) ==
  IF i > Len(names) THEN NULL
  ELSE IF headers[names[i]] # NULL /\ isValidMacAddress(headers[names[i]])
       THEN headers[names[i]]
       ELSE firstValidMac(headers, names, i + 1)

\* extractDeviceInfo: the first well-formed header value, else req.ip
extractDeviceInfo(headers, ip) ==
  LET mac == firstValidMac(headers, PortalMacHeaders, 1)
  IN IF mac # NULL THEN mac ELSE ip

\* repository faults a probe can meet: none, Device.findOne throws, device.update
\* throws
PortalFaults == {"none", "findOne", "update"}

\* checkDeviceAuthorization without the test of the owning user's block
checkDeviceAuthorizationNoUserCheck(macAddress, fault, devs, usrs, t) ==
  LET device == devs[macAddress]
      ok == device.exists /\ ~device.isBlocked /\ device.isActive
  IN IF macAddress = NULL \/ ~isValidMacAddress(macAddress) \/ fault = "findOne"
        \/ ~ok \/ fault = "update"
     THEN [result |-> "false", devices |-> devs, audits |-> <<>>]
     ELSE [result |-> "true", devices |-> [devs EXCEPT ![macAddress].lastSeen = t],
           audits |-> <<>>]


\* checkDeviceAuthorization with its catch answering true
checkDeviceAuthorizationFailOpen(macAddress, fault, devs, usrs, t) ==
  LET device == devs[macAddress]
      ok == /\ device.exists /\ ~device.isBlocked
            /\ ~(usrs[device.userId].exists /\ usrs[device.userId].isBlocked)
            /\ device.isActive
  IN IF macAddress = NULL \/ ~isValidMacAddress(macAddress)
     THEN [result |-> "false", devices |-> devs, audits |-> <<>>]
     ELSE IF fault = "findOne" \/ (ok /\ fault = "update")
     THEN [result |-> "true", devices |-> devs, audits |-> <<>>]
     ELSE [result |-> IF ok THEN "true" ELSE "false",
           devices |-> IF ok THEN [devs EXCEPT ![macAddress].lastSeen = t] ELSE devs,
           audits |-> <<>>]

\* checkDeviceAuthorization(macAddress, ipAddress): the decision ("true", "false";
\* "throw" would be a rejected promise, which its catch rules out), the Device
\* table after it and the audit entries it wrote
checkDeviceAuthorization(macAddress, fault, devs, usrs, t) ==
  LET device == devs[macAddress]
      alert == <<"SECURITY_ALERT">>
      no(audits) == [result |-> "false", devices |-> devs, audits |-> audits]
  IN IF macAddress = NULL \/ ~isValidMacAddress(macAddress) THEN no(<<>>)
     ELSE IF fault = "findOne" THEN no(<<>>)               \* catch: return false
     ELSE IF ~device.exists THEN no(<<>>)
     ELSE IF device.isBlocked THEN no(alert)
     ELSE IF usrs[device.userId].exists /\ usrs[device.userId].isBlocked THEN no(alert)
     ELSE IF device.isActive
          THEN IF fault = "update" THEN no(<<>>)           \* catch: return false
               ELSE [result |-> "true",
                     devices |-> [devs EXCEPT ![macAddress].lastSeen = t],
                     audits |-> <<>>]
          ELSE no(<<>>)

NoLocation == [path |-> NULL, device |-> NULL, source |-> NULL]
Plain(status, body) == [status |-> status, body |-> body, location |-> NoLocation]
\* res.redirect(302, `/portal?device=${encodeURIComponent(macAddress)}&source=...`):
\* device is the query parameter as the portal decodes it
RedirectToPortal(macAddress, source) ==
  [status |-> 302, body |-> "",
   location |-> [path |-> "/portal", device |-> macAddress, source |-> source]]

successHtml == "<HTML><HEAD><TITLE>Success</TITLE></HEAD><BODY>Success</BODY></HTML>"

\* the handlers; isAuthorized is "true", "false" or "throw", and the catch of each
\* handler redirects without the device
\* handleAndroidCaptivePortal redirecting without the device parameter
handleAndroidCaptivePortalNoDevice(macAddress, isAuthorized) ==
  IF isAuthorized = "true" THEN Plain(204, "") ELSE RedirectToPortal(NULL, "android")

handleAndroidCaptivePortal(macAddress, isAuthorized) ==
  IF isAuthorized = "throw" THEN RedirectToPortal(NULL, "android")
  ELSE IF isAuthorized = "true" THEN Plain(204, "")
  ELSE RedirectToPortal(macAddress, "android")

handleIOSCaptivePortal(macAddress, isAuthorized) ==
  IF isAuthorized = "throw" THEN RedirectToPortal(NULL, "ios")
  ELSE IF isAuthorized = "true" THEN Plain(200, successHtml)
  ELSE RedirectToPortal(macAddress, "ios")

handleAppleCaptivePortal(macAddress, isAuthorized) ==
  IF isAuthorized = "throw" THEN RedirectToPortal(NULL, "apple")
  ELSE IF isAuthorized = "true" THEN Plain(200, successHtml)
  ELSE RedirectToPortal(macAddress, "apple")

handleWindowsCaptivePortal(macAddress, isAuthorized) ==
  IF isAuthorized = "throw" THEN RedirectToPortal(NULL, "windows")
  ELSE IF isAuthorized = "true" THEN Plain(200, "Microsoft Connect Test")
  ELSE RedirectToPortal(macAddress, "windows")

handleGenericCaptivePortal(macAddress, isAuthorized) ==
  IF isAuthorized = "throw" THEN RedirectToPortal(NULL, "generic")
  ELSE IF isAuthorized = "true" THEN Plain(200, "OK")
  ELSE RedirectToPortal(macAddress, "generic")

\* switch (path) of captivePortalMiddleware
portalDispatch(path, macAddress, isAuthorized) ==
  CASE path = "/generate_204" -> handleAndroidCaptivePortal(macAddress, isAuthorized)
    [] path = "/hotspot-detect.html" -> handleIOSCaptivePortal(macAddress, isAuthorized)
    [] path = "/library/test/success.html" ->
         handleAppleCaptivePortal(macAddress, isAuthorized)
    [] path \in {"/connecttest.txt", "/ncsi.txt"} ->
         handleWindowsCaptivePortal(macAddress, isAuthorized)
    [] OTHER -> handleGenericCaptivePortal(macAddress, isAuthorized)

NextMiddleware == [status |-> 0, body |-> "next()", location |-> NoLocation]

\* captivePortalMiddleware on one request: the response (NextMiddleware when the
\* request is passed on), the Device table after it, and what it logged
captivePortalMiddleware(path, userAgent, headers, ip, fault, devs, usrs, t) ==
  LET macAddress == extractDeviceInfo(headers, ip)
      decision == checkDeviceAuthorization(macAddress, fault, devs, usrs, t)
      detected == <<"CAPTIVE_PORTAL_DETECTED">>
  IN IF isCaptivePortalRequest(path, userAgent)
     THEN [probe |-> TRUE, macAddress |-> macAddress, isAuthorized |-> decision.result,
           response |-> portalDispatch(path, macAddress, decision.result),
           devices |-> decision.devices, audits |-> detected \o decision.audits]
     ELSE [probe |-> FALSE, macAddress |-> NULL, isAuthorized |-> "false",
           response |-> NextMiddleware, devices |-> devs, audits |-> <<>>]

NoProbe == [seen |-> FALSE]

\* header maps of the model
HeaderNames == {"x-client-mac", "x-forwarded-mac", "mac-address", "x-real-mac"}
NoHeaders == [n \in HeaderNames |-> NULL]
RequestHeaders ==
  { NoHeaders,
    [NoHeaders EXCEPT !["x-client-mac"] = MAC1],
    [NoHeaders EXCEPT !["x-client-mac"] = MAC1, !["mac-address"] = MAC2],
    [NoHeaders EXCEPT !["x-client-mac"] = ShortMac, !["x-real-mac"] = MAC2],
    [NoHeaders EXCEPT !["x-forwarded-mac"] = ShortMac] }

\* one request through captivePortalMiddleware
PortalRequest(path, userAgent, headers, ip, fault) ==
  \E out \in {captivePortalMiddleware(path, userAgent, headers, ip, fault,
                                      devices, users, now)} :
     /\ devices' = out.devices
     /\ lastProbe' = [seen |-> TRUE, path |-> path,
                      fault |-> fault, probe |-> out.probe,
                      macAddress |-> out.macAddress,
                      isAuthorized |-> out.isAuthorized, response |-> out.response,
                      audits |-> out.audits, before |-> devices, after |-> out.devices]
     /\ UNCHANGED <<now, users, portalFrame>>

\* the requests of the portal specification: every path with a browser's user
\* agent, the non-probe paths also with the captive-network assistant's; the
\* connection address varies where no header resolves the device
PortalRequests ==
  {r \in [path : Paths, userAgent : UserAgents, headers : RequestHeaders, ip : {IP1, IP2}] :
     /\ r.userAgent = "Mozilla/5.0 (Linux; Android 14)"
          \/ r.path \in {"/portal", "/api/auth/login"}
     /\ r.ip = IP1 \/ firstValidMac(r.headers, PortalMacHeaders, 1) = NULL}

\* one request of a client through captivePortalMiddleware: as PortalRequest,
\* with the user agent, the headers and the address of the client remembered,
\* and the number of redirects it followed to make this request
ClientRequest(path, userAgent, headers, ip, fault, hops) ==
  \E out \in {captivePortalMiddleware(path, userAgent, headers, ip, fault,
                                      devices, users, now)} :
     /\ devices' = out.devices
     /\ lastProbe' = [seen |-> TRUE, path |-> path,
                      fault |-> fault, probe |-> out.probe,
                      macAddress |-> out.macAddress,
                      isAuthorized |-> out.isAuthorized, response |-> out.response,
                      audits |-> out.audits, before |-> devices, after |-> out.devices,
                      userAgent |-> userAgent, headers |-> headers, ip |-> ip,
                      hops |-> hops]
     /\ UNCHANGED <<now, users, portalFrame>>

\* the client answered with a 302 requests the path of the Location header,
\* with the headers and the user agent of the request before
FollowRedirect(fault) ==
  /\ lastProbe.seen
  /\ lastProbe.response.status = 302
  /\ lastProbe.hops < MaxHops
  /\ ClientRequest(lastProbe.response.location.path, lastProbe.userAgent,
                   lastProbe.headers, lastProbe.ip, fault, lastProbe.hops + 1)

(***************************************************************************)
(* middleware/abuse.js (README.md 748-1262): failed attempts, IP bans      *)
(***************************************************************************)
\* the clock of the abuse and signup/login specifications counts seconds; the
\* code's durations are in milliseconds
Seconds(milliseconds) == milliseconds \div 1000

MAX_FAILED_ATTEMPTS == 3
BLOCK_DURATION == Seconds(15 * 60 * 1000)
ATTEMPT_WINDOW == Seconds(15 * 60 * 1000)
MAX_DEVICE_REGISTRATIONS_PER_IP == 5
MAX_DEVICE_REGISTRATIONS_WINDOW == Seconds(60 * 60 * 1000)

\* the clock advances in steps of five minutes
ClockStep == ATTEMPT_WINDOW \div 3

Ips == {IP1, IP2}
UnknownEmail == "nobody@x.org"
\* keys `${type}:${identifier}` of failed attempts: a user by primary key, a
\* login with an e-mail no user has (routes/auth.js 305), a device by
\* macAddress, a staff member by primary key
TrackedKeys == {<<"user", "u1">>, <<"user", UnknownEmail>>, <<"device", MAC1>>,
                <<"staff", "s1">>}
AttemptKeys == TrackedKeys \cup {<<"user", "u2">>}
\* keys `requests:${ip}` of trackRequest
RequestKeys == {<<"requests", ip>> : ip \in Ips}
StoreKeys == AttemptKeys \cup RequestKeys
EmptyStore == [k \in StoreKeys |-> <<>>]

\* cleanOldAttempts: every array keeps the entries whose .timestamp is after the
\* cutoff; the entries of a requests: key are bare numbers, whose .timestamp is
\* undefined, so none of them is kept; an emptied key is deleted
cleanOldAttempts(store, t) ==
  LET cutoff == t - ATTEMPT_WINDOW
      valid(attempt) == attempt.timestamp > cutoff
  IN [k \in StoreKeys |->
        IF k \in RequestKeys THEN <<>> ELSE SelectSeq(store[k], valid)]

\* the count of trackFailedAttempt without attemptStore.set(key, attempts)
countFailedAttemptUnsaved(type, identifier, ip, store, t) ==
  LET cleaned == cleanOldAttempts(store, t)
      inWindow(attempt) == t - attempt.timestamp < ATTEMPT_WINDOW
  IN [store |-> cleaned,
      attemptCount |-> Len(SelectSeq(cleaned[<<type, identifier>>], inWindow)) + 1]

\* trackFailedAttempt up to its threshold test: the store after it and the
\* number of attempts it counted; of an attempt's fields only the timestamp
\* is ever read, and only it is kept here
countFailedAttempt(type, identifier, ip, store, t) ==
  LET key == <<type, identifier>>
      cleaned == cleanOldAttempts(store, t)
      inWindow(attempt) == t - attempt.timestamp < ATTEMPT_WINDOW
      attempts == Append(SelectSeq(cleaned[key], inWindow), [timestamp |-> t])
  IN [store |-> [cleaned EXCEPT ![key] = attempts], attemptCount |-> Len(attempts)]

\* repository faults of blockDevice, blockStaff and blockUser: each catches and
\* logs whatever its lookup or its update throws
BlockFaults == {"none", "throw"}

blockDevice(macAddress, fault, devs) ==
  IF fault = "none" /\ macAddress \in DOMAIN devs /\ devs[macAddress].exists
  THEN [devs EXCEPT ![macAddress].isBlocked = TRUE, ![macAddress].failedAttempts = @ + 1]
  ELSE devs

blockStaff(staffId, fault, stf) ==
  IF fault = "none" /\ staffId \in DOMAIN stf /\ stf[staffId].exists
  THEN [stf EXCEPT ![staffId].isBlocked = TRUE, ![staffId].failedAttempts = @ + 1]
  ELSE stf

blockUser(userId, fault, usrs) ==
  IF fault = "none" /\ userId \in DOMAIN usrs /\ usrs[userId].exists
  THEN [usrs EXCEPT ![userId].isBlocked = TRUE]
  ELSE usrs

\* blockIp: the address joins blockedIps and a timer will delete it
blockIp(ip, blocked, tmrs, t) ==
  [blockedIps |-> blocked \cup {ip},
   timers |-> tmrs \cup {[ip |-> ip, due |-> t + BLOCK_DURATION]}]

isIpBlocked(ip, blocked) == ip \in blocked

\* handleExcessiveFailedAttempts: block the entity by type, then the address
handleExcessiveFailedAttempts(type, identifier, ip, fault, usrs, devs, stf, blocked, tmrs, t) ==
  LET ban == blockIp(ip, blocked, tmrs, t)
  IN [users |-> IF type = "user" THEN blockUser(identifier, fault, usrs) ELSE usrs,
      devices |-> IF type = "device" THEN blockDevice(identifier, fault, devs) ELSE devs,
      staff |-> IF type = "staff" THEN blockStaff(identifier, fault, stf) ELSE stf,
      blockedIps |-> ban.blockedIps, timers |-> ban.timers]

\* trackFailedAttempt blocking only above MAX_FAILED_ATTEMPTS
shouldBlockAbove(attemptCount) == attemptCount > MAX_FAILED_ATTEMPTS

\* if (attempts.length >= MAX_FAILED_ATTEMPTS)
shouldBlock(attemptCount) == attemptCount >= MAX_FAILED_ATTEMPTS

\* the failures of a key that lie within the window at time t
RecentFailures(times, t) ==
  Cardinality({i \in 1..Len(times) : t - times[i] < ATTEMPT_WINDOW})

\* the blocked flag of the row a key names (FALSE when it names none)
EntityBlocked(type, identifier, usrs, devs, stf) ==
  CASE type = "user" -> identifier \in DOMAIN usrs /\ usrs[identifier].isBlocked
    [] type = "device" -> identifier \in DOMAIN devs /\ devs[identifier].isBlocked
    [] type = "staff" -> identifier \in DOMAIN stf /\ stf[identifier].isBlocked

EntityExists(type, identifier, usrs, devs, stf) ==
  CASE type = "user" -> identifier \in DOMAIN usrs /\ usrs[identifier].exists
    [] type = "device" -> identifier \in DOMAIN devs /\ devs[identifier].exists
    [] type = "staff" -> identifier \in DOMAIN stf /\ stf[identifier].exists

\* trackFailedAttempt(identifier, type, req): what it returns, and the store,
\* the tables, the banned set and the timers after it
trackFailedAttempt(type, identifier, ip, fault, store, usrs, devs, stf, blocked, tmrs, t) ==
  LET counted == countFailedAttempt(type, identifier, ip, store, t)
      out == handleExcessiveFailedAttempts(type, identifier, ip, fault, usrs, devs, stf,
                                           blocked, tmrs, t)
  IN IF shouldBlock(counted.attemptCount)
     THEN [result |-> TRUE, attemptCount |-> counted.attemptCount,
           store |-> counted.store, users |-> out.users,
           devices |-> out.devices, staff |-> out.staff,
           blockedIps |-> out.blockedIps, timers |-> out.timers]
     ELSE [result |-> FALSE, attemptCount |-> counted.attemptCount,
           store |-> counted.store, users |-> usrs,
           devices |-> devs, staff |-> stf, blockedIps |-> blocked, timers |-> tmrs]

\* calls: the number of trackFailedAttempt calls made so far
NoTrack == [seen |-> FALSE, calls |-> 0]

\* what lastTrack remembers of a call: its arguments, its result, the count
\* it computed, how many failures of the key lay within the window (the call
\* included), how many were tracked since the key was last cleared (the call
\* included), and the entity's blocked flag before and after
TrackRecord(type, identifier, ip, fault, out, times) ==
  [seen |-> TRUE, calls |-> lastTrack.calls + 1, type |-> type,
   identifier |-> identifier, ip |-> ip, at |-> now, fault |-> fault,
   nth |-> RecentFailures(times, now),
   sinceClear |-> Len(times),
   attemptCount |-> out.attemptCount,
   result |-> out.result,
   existed |-> EntityExists(type, identifier, users, devices, staff),
   blockedBefore |-> EntityBlocked(type, identifier, users, devices, staff),
   blockedAfter |-> EntityBlocked(type, identifier, out.users, out.devices, out.staff),
   ipBanned |-> isIpBlocked(ip, out.blockedIps)]

\* one trackFailedAttempt(identifier, type, req) call
TrackFailedAttempt(type, identifier, ip, fault) ==
  /\ lastTrack.calls < MaxAttempts
  /\ \E out \in {trackFailedAttempt(type, identifier, ip, fault, attemptStore, users,
                                    devices, staff, blockedIps, timers, now)} :
       \* a repository call, and so a fault, happens only when the entity is blocked
       /\ fault = "none" \/ out.result
       /\ attemptStore' = out.store
       /\ users' = out.users
       /\ devices' = out.devices
       /\ staff' = out.staff
       /\ blockedIps' = out.blockedIps
       /\ timers' = out.timers
       /\ failures' = [failures EXCEPT ![<<type, identifier>>] = Append(@, now)]
       /\ lastTrack' = TrackRecord(type, identifier, ip, fault, out,
                                   failures'[<<type, identifier>>])
  /\ UNCHANGED <<now, lastReq, injectionBan, abuseFrame>>

\* clearFailedAttempts that leaves the key's attempts in the store
clearFailedAttemptsKept(type, identifier, store) == store

\* clearFailedAttempts(identifier, type): attemptStore.delete(key)
clearFailedAttempts(type, identifier, store) ==
  [store EXCEPT ![<<type, identifier>>] = <<>>]

\* one clearFailedAttempts(identifier, type) call
ClearFailedAttempts(type, identifier) ==
  /\ attemptStore' = clearFailedAttempts(type, identifier, attemptStore)
  /\ failures' = [failures EXCEPT ![<<type, identifier>>] = <<>>]
  /\ UNCHANGED <<now, users, devices, staff, blockedIps, timers, lastTrack, lastReq,
                 injectionBan, abuseFrame>>

\* setInterval(cleanOldAttempts, 5 * 60 * 1000)
Sweep ==
  /\ attemptStore' = cleanOldAttempts(attemptStore, now)
  /\ attemptStore' # attemptStore
  /\ UNCHANGED <<now, users, devices, staff, blockedIps, timers, failures, lastTrack,
                 lastReq, injectionBan, abuseFrame>>

\* the setTimeout callback of blockIp: blockedIps.delete(ip)
TimerFire(timer) ==
  /\ timer \in timers
  /\ timer.due <= now
  /\ blockedIps' = blockedIps \ {timer.ip}
  /\ timers' = timers \ {timer}
  /\ UNCHANGED <<now, users, devices, staff, attemptStore, failures, lastTrack, lastReq,
                 injectionBan, abuseFrame>>

\* time passes; a timer that is due fires before the clock moves on
AbuseTick ==
  /\ now < MaxAbuseTicks * ClockStep
  /\ \A timer \in timers : timer.due > now
  /\ now' = now + ClockStep
  /\ UNCHANGED <<users, devices, abuseVars, abuseFrame>>

(***************************************************************************)
(* middleware/abuse.js: abuseMiddleware, behind captivePortalMiddleware     *)
(* (server.js mounts the captive middleware first, then the abuse one)     *)
(***************************************************************************)
InjectionPath == "/api/users/1';--"
AbusePaths == {"/health", "/static/app.js", "/generate_204", "/portal",
               "/api/auth/login", "/api/auth/signup", InjectionPath}
Browser == "Mozilla/5.0 (Linux; Android 14)"
AbuseUserAgents == {Browser, "curl/8.4.0"}

\* String.prototype.startsWith on the paths of the model
startsWith(text, prefix) ==
  \/ text = prefix
  \/ prefix = "/static" /\ text = "/static/app.js"

\* the query strings of the model: none, and one with a quote and a semicolon
NoQuery == ""
InjectionQuery == "id=1';--"
AbuseQueries == {NoQuery, InjectionQuery}

\* req.query.toString(): req.query is the plain object the query string was
\* parsed into, and Object.prototype.toString answers for it
queryToString(query) == "[object Object]"

\* if (recentRequests > 50)
RateLimit == 50

\* suspiciousPatterns, in the code's order
suspiciousPatterns == <<"sql", "xss", "traversal", "command">>

\* pattern.test(text) on the texts of the model: the quote and the semicolon
\* of InjectionPath match the SQL pattern, its semicolon the command pattern
patternTest(pattern, text) ==
  /\ text \in {InjectionPath, InjectionQuery}
  /\ pattern \in {"sql", "command"}

\* suspiciousUserAgents on the user agents of the model
isSuspiciousUserAgent(userAgent) == userAgent = "curl/8.4.0"

\* getRecentRequests: the length of the stored array, whatever its entries' age
getRecentRequests(ip, store) == Len(store[<<"requests", ip>>])

\* getRecentDeviceRegistrations: Device.count of the rows created within the
\* window, from any address
getRecentDeviceRegistrations(ip, devs, t) ==
  Cardinality({m \in DOMAIN devs :
                 devs[m].exists /\ devs[m].createdAt >= t - MAX_DEVICE_REGISTRATIONS_WINDOW})

NotSuspicious == [isSuspicious |-> FALSE, shouldBlock |-> FALSE, reason |-> NULL]
Suspicious(shouldBan, reason) ==
  [isSuspicious |-> TRUE, shouldBlock |-> shouldBan, reason |-> reason]

detectSuspiciousActivity(path, query, userAgent, ip, store, devs, t) ==
  IF \E i \in 1..Len(suspiciousPatterns) :
        patternTest(suspiciousPatterns[i], path)
          \/ patternTest(suspiciousPatterns[i], queryToString(query))
  THEN Suspicious(TRUE, "Potential injection attack detected")
  ELSE IF getRecentRequests(ip, store) > RateLimit
  THEN Suspicious(TRUE, "Rapid successive requests detected")
  ELSE IF isSuspiciousUserAgent(userAgent)
  THEN Suspicious(FALSE, "Suspicious user agent detected")
  ELSE IF (includes(path, "/api/auth/signup") \/ includes(path, "/api/users"))
          /\ getRecentDeviceRegistrations(ip, devs, t) >= MAX_DEVICE_REGISTRATIONS_PER_IP
  THEN Suspicious(TRUE, "Excessive device registrations from IP")
  ELSE NotSuspicious

\* trackRequest: the timestamps of the last minute, and this one
trackRequest(ip, store, t) ==
  LET lastMinute(timestamp) == t - timestamp < Seconds(60000)
  IN [store EXCEPT ![<<"requests", ip>>] = Append(SelectSeq(@, lastMinute), t)]

\* abuseMiddleware on one request: "next" when it calls next(), "rejected" with
\* the status it answered otherwise; the store, the banned set and the timers
\* after it
abuseMiddleware(path, query, userAgent, ip, store, blocked, tmrs, devs, t) ==
  LET suspiciousActivity ==
        detectSuspiciousActivity(path, query, userAgent, ip, store, devs, t)
      ban == blockIp(ip, blocked, tmrs, t)
      same(outcome, status, reason) ==
        [outcome |-> outcome, status |-> status, reason |-> reason,
         store |-> store, blockedIps |-> blocked, timers |-> tmrs]
  IN IF path = "/health" \/ startsWith(path, "/static") \/ startsWith(path, "/assets")
     THEN same("next", 0, NULL)
     ELSE IF isIpBlocked(ip, blocked)
     THEN same("rejected", 403, "Blocked IP attempted access")
     ELSE IF suspiciousActivity.isSuspicious /\ suspiciousActivity.shouldBlock
     THEN [outcome |-> "rejected", status |-> 429, reason |-> suspiciousActivity.reason,
           store |-> store, blockedIps |-> ban.blockedIps, timers |-> ban.timers]
     ELSE [outcome |-> "next", status |-> 0, reason |-> suspiciousActivity.reason,
           store |-> trackRequest(ip, store, t), blockedIps |-> blocked, timers |-> tmrs]

\* made: per address, the number of its requests so far; log: per address,
\* the times of its requests of the last minute that came to
\* detectSuspiciousActivity
NoReq == [seen |-> FALSE, made |-> [ip \in Ips |-> 0], log |-> [ip \in Ips |-> <<>>]]

\* the requests of the log that lie within the minute before t
RecentlyMade(log, t) == SelectSeq(log, LAMBDA made : t - made < Seconds(60000))

\* the devices registered from address ip within the hour before t
RegistrationsFrom(ip, devs, t) ==
  Cardinality({m \in DOMAIN devs :
                 /\ devs[m].exists
                 /\ devs[m].registeredFrom = ip
                 /\ devs[m].createdAt >= t - MAX_DEVICE_REGISTRATIONS_WINDOW})

\* what lastReq remembers of a request: how it was answered, whether its
\* address was banned before and after it, whether it came to
\* detectSuspiciousActivity, and how many requests of its address had come
\* there within the minute before
RequestRecord(path, query, userAgent, ip, outcome, status, reason, blocked2) ==
  LET reached == /\ outcome # "captive"
                 /\ ~(path = "/health" \/ startsWith(path, "/static")
                        \/ startsWith(path, "/assets"))
                 /\ ~isIpBlocked(ip, blockedIps)
  IN [seen |-> TRUE, ip |-> ip, path |-> path, query |-> query, at |-> now,
      outcome |-> outcome, status |-> status, reason |-> reason,
      wasBanned |-> isIpBlocked(ip, blockedIps),
      bannedAfter |-> isIpBlocked(ip, blocked2),
      reached |-> reached,
      made |-> [lastReq.made EXCEPT ![ip] = @ + 1],
      recentBefore |-> Len(RecentlyMade(lastReq.log[ip], now)),
      userAgent |-> userAgent,
      registrationsBefore |-> RegistrationsFrom(ip, devices, now),
      log |-> IF reached
              THEN [lastReq.log EXCEPT ![ip] = Append(RecentlyMade(@, now), now)]
              ELSE lastReq.log]

\* one request through the middleware chain of server.js: a request the
\* captive middleware answers never reaches the abuse middleware
ServerRequest(path, query, userAgent, ip) ==
  /\ lastReq.made[ip] < MaxTrackedRequests
  /\ \E probe \in {captivePortalMiddleware(path, userAgent, NoHeaders, ip, "none",
                                          devices, users, now)} :
       IF probe.probe
       THEN /\ devices' = probe.devices
            /\ lastReq' = RequestRecord(path, query, userAgent, ip, "captive",
                                        probe.response.status, NULL, blockedIps)
            /\ UNCHANGED <<attemptStore, blockedIps, timers, injectionBan>>
       ELSE \E out \in {abuseMiddleware(path, query, userAgent, ip, attemptStore,
                                        blockedIps, timers, devices, now)} :
              /\ attemptStore' = out.store
              /\ blockedIps' = out.blockedIps
              /\ timers' = out.timers
              /\ lastReq' = RequestRecord(path, query, userAgent, ip, out.outcome,
                                          out.status,
                                          out.reason, out.blockedIps)
              /\ injectionBan' =
                   IF out.reason = "Potential injection attack detected"
                   THEN [injectionBan EXCEPT ![ip] = now]
                   ELSE injectionBan
              /\ devices' = devices
  /\ UNCHANGED <<now, users, staff, failures, lastTrack, abuseFrame>>

\* the requests of the middleware specification: a query string comes with
\* the portal page of a browser
AbuseRequests ==
  {r \in [path : AbusePaths, query : AbuseQueries, userAgent : AbuseUserAgents,
          ip : Ips] :
     r.query # NoQuery => r.path = "/portal" /\ r.userAgent = Browser}

\* the requests of the registration specification: the signup route and the
\* portal page
RegistrationRequests ==
  {r \in AbuseRequests : r.path \in {"/api/auth/signup", "/portal"} /\ r.query = NoQuery}

\* the devices of the registration specification, in the order registered
RegisteredMacs == <<MAC1, MAC2, MAC3, IP1, IP2, ShortMac>>

\* the requests of the rate specification: the portal page, from a browser
RateRequests == {r \in AbuseRequests : r.path = "/portal" /\ r.userAgent = Browser
                                         /\ r.query = NoQuery}

(***************************************************************************)
(* middleware/auth.js extractMacAddress; routes/auth.js signup and login   *)
(***************************************************************************)
Loopback == "127.0.0.1"

RECURSIVE firstUsable(_, _)
\* for (const mac of macSources) if (mac && mac !== '::1' && mac !== '127.0.0.1')
firstUsable(macSources, i) ==
  IF i > Len(macSources) THEN NULL
  ELSE IF macSources[i] # NULL /\ macSources[i] \notin {"::1", Loopback}
       THEN macSources[i]
       ELSE firstUsable(macSources, i + 1)

\* extractMacAddress: three headers, then req.connection.remoteAddress
extractMacAddress(headers, remoteAddress) ==
  firstUsable(<<headers["x-client-mac"], headers["x-forwarded-mac"],
                headers["mac-address"], remoteAddress>>, 1)

maxDevices == 2

\* moment().diff(moment(dateOfBirth), 'years') < 13 on the dates of the model
isUnder13(dateOfBirth) == dateOfBirth = "2015-06-01"

\* User.findOne({ where: { email } }): the id of the row, or NULL
findUserByEmail(usrs, email) ==
  IF \E u \in UserIds : usrs[u].exists /\ usrs[u].email = email
  THEN CHOOSE u \in UserIds : usrs[u].exists /\ usrs[u].email = email
  ELSE NULL

\* the active devices of a user
activeDevices(devs, userId) ==
  {m \in DOMAIN devs : devs[m].exists /\ devs[m].userId = userId /\ devs[m].isActive}

\* Device.findOne({ where: { macAddress, userId } }) finds a row
hasDevice(devs, macAddress, userId) ==
  devs[macAddress].exists /\ devs[macAddress].userId = userId

\* generateVoucher: a row under a fresh code, expiring after validityDays
\* (Codes bounds the vouchers of the model: with no code left none is issued)
generateVoucher(vchs, type, userId, value, validityDays, t) ==
  IF \A c \in Codes : vchs[c].exists THEN vchs
  ELSE LET code == CHOOSE c \in Codes : ~vchs[c].exists
       IN [vchs EXCEPT ![code] =
             [FreshVoucher(t + validityDays * 24 * 60 * 60) EXCEPT
                !.type = type, !.userId = userId, !.value = value, !.createdAt = t]]

(***************************************************************************)
(* utils/loyalty.js: rewards                                               *)
(***************************************************************************)
\* DEFAULT_REWARDS, the rows initializeDefaultRewards stores (all active)
DEFAULT_REWARDS ==
  << [name |-> "Welcome Bonus", triggerType |-> "visit_count", triggerValue |-> 1,
      value |-> "Free Welcome Drink", maxPerWeek |-> 1, validityDays |-> 30],
     [name |-> "Silver Tier Upgrade", triggerType |-> "tier_upgrade", triggerValue |-> 5,
      value |-> "Free Pastry", maxPerWeek |-> 1, validityDays |-> 30],
     [name |-> "Gold Tier Upgrade", triggerType |-> "tier_upgrade", triggerValue |-> 15,
      value |-> "Free Lunch Combo", maxPerWeek |-> 1, validityDays |-> 30],
     [name |-> "Platinum Tier Upgrade", triggerType |-> "tier_upgrade",
      triggerValue |-> 30, value |-> "Free Dinner for Two", maxPerWeek |-> 1,
      validityDays |-> 30],
     [name |-> "Frequent Visitor", triggerType |-> "visit_count", triggerValue |-> 10,
      value |-> "10% Discount", maxPerWeek |-> 1, validityDays |-> 14],
     [name |-> "Birthday Special", triggerType |-> "birthday", triggerValue |-> 0,
      value |-> "Birthday Dessert", maxPerWeek |-> 1, validityDays |-> 7] >>

\* the context of a checkRewards call
RewardContext(tierUpgrade) == [tierUpgrade |-> tierUpgrade, referral |-> FALSE]

\* isBirthdayToday: no guest of the model is born on a day of the model's clock
isBirthdayToday(dateOfBirth, t) == FALSE

\* checkRecentReward: the user's reward vouchers of this value created within
\* the last week are maxPerWeek or more
checkRecentReward(userId, reward, vchs, t) ==
  Cardinality({c \in Codes :
                 /\ vchs[c].exists
                 /\ vchs[c].userId = userId
                 /\ vchs[c].type = "reward"
                 /\ vchs[c].value = reward.value
                 /\ vchs[c].createdAt >= t - 7 * 24 * 60 * 60}) >= reward.maxPerWeek

\* the switch of shouldAwardReward on reward.triggerType
triggerMet(user, reward, context, t) ==
  CASE reward.triggerType = "visit_count" -> user.visitCount = reward.triggerValue
    [] reward.triggerType = "tier_upgrade" ->
         context.tierUpgrade /\ user.visitCount = reward.triggerValue
    [] reward.triggerType = "birthday" -> isBirthdayToday(user.dateOfBirth, t)
    [] reward.triggerType = "referral" -> context.referral
    [] OTHER -> FALSE

\* shouldAwardReward: the switch on reward.triggerType, then checkRecentReward
shouldAwardReward(userId, user, reward, context, vchs, t) ==
  /\ triggerMet(user, reward, context, t)
  /\ ~checkRecentReward(userId, reward, vchs, t)

RECURSIVE awardFrom(_, _, _, _, _, _, _)
\* the for loop of checkRewards over the rewards Reward.findAll returned:
\* those of the trigger type asked for, from index i on
awardFrom(i, userId, triggerType, context, usrs, vchs, t) ==
  IF i > Len(DEFAULT_REWARDS) THEN vchs
  ELSE IF DEFAULT_REWARDS[i].triggerType = triggerType
          /\ shouldAwardReward(userId, usrs[userId], DEFAULT_REWARDS[i], context, vchs, t)
       THEN awardFrom(i + 1, userId, triggerType, context, usrs,
                      generateVoucher(vchs, "reward", userId, DEFAULT_REWARDS[i].value,
                                      DEFAULT_REWARDS[i].validityDays, t), t)
       ELSE awardFrom(i + 1, userId, triggerType, context, usrs, vchs, t)

\* checkRewards(userId, triggerType, context): the Voucher table after it
checkRewards(userId, triggerType, context, usrs, vchs, t) ==
  IF ~usrs[userId].exists THEN vchs
  ELSE awardFrom(1, userId, triggerType, context, usrs, vchs, t)

(***************************************************************************)
(* routes/auth.js: the handlers                                            *)
(***************************************************************************)
\* repository calls that may throw during a request (the first such call
\* the request makes throws)
AuthFaults == {"none", "User.create", "Device.create", "Visit.create"}

\* the answer of a route: the response, the audit entry written with it, the
\* tables after it, the key of the failed attempt it tracks and the key
\* whose attempts it clears (NULL: none), and the tierUpgrade flag it handed
\* to checkRewards; status 0 is a rejected promise that no catch handles;
\* threw: the repository call made to throw during the request (NULL: none)
Answer(status, error, audit, usrs, devs, vis, vchs) ==
  [status |-> status, error |-> error, audit |-> audit, users |-> usrs,
   devices |-> devs, visits |-> vis, vouchers |-> vchs, track |-> NULL,
   clear |-> NULL, tierUpgrade |-> FALSE, threw |-> NULL]

\* the answer to a request in which the call fault threw
Threw(fault, answer) == [answer EXCEPT !.threw = fault]

\* a throw outside every try block
Escaped(usrs, devs, vis, vchs) ==
  Answer(0, "unhandledRejection", NULL, usrs, devs, vis, vchs)

\* if (activeDevices >= maxDevices) with > for >=
deviceLimitReachedAbove(activeDeviceCount) == activeDeviceCount > maxDevices

\* if (activeDevices >= maxDevices), if (activeDeviceCount >= maxDevices)
deviceLimitReached(activeDeviceCount) == activeDeviceCount >= maxDevices

\* user.update({ visitCount, loyaltyTier }): the row and the instance in memory
visitUpdate(user) ==
  [user EXCEPT !.visitCount = user.visitCount + 1,
               !.loyaltyTier = calculateLoyaltyTier(user.visitCount + 1)]

\* tierUpgrade: newLoyaltyTier !== user.loyaltyTier, evaluated on the instance
\* after user.update has set its loyaltyTier
tierUpgradeFlag(newLoyaltyTier, userAfterUpdate) ==
  newLoyaltyTier # userAfterUpdate.loyaltyTier

\* handleExistingDeviceLogin: device.update(lastSeen), Visit.create,
\* user.update, checkRewards(userId, 'visit'); its throws are not caught here
handleExistingDeviceLogin(userId, macAddress, fault, usrs, devs, vis, vchs, t) ==
  LET newVisitCount == usrs[userId].visitCount + 1
      newLoyaltyTier == calculateLoyaltyTier(newVisitCount)
      seen == [devs EXCEPT ![macAddress].lastSeen = t]
      updated == [usrs EXCEPT ![userId] = visitUpdate(usrs[userId])]
      tierUpgrade == tierUpgradeFlag(newLoyaltyTier, updated[userId])
  IN IF fault = "Visit.create" THEN Threw(fault, Escaped(usrs, seen, vis, vchs))
     ELSE [Answer(200, NULL, "USER_LOGIN", updated, seen, vis + 1,
                  checkRewards(userId, "visit", RewardContext(tierUpgrade), updated,
                               vchs, t))
             EXCEPT !.tierUpgrade = tierUpgrade]

\* handleNewDeviceForExistingUser; Device.create rejects when it is made to
\* or when the macAddress (unique) is another user's
handleNewDeviceForExistingUser(userId, macAddress, fault, usrs, devs, vis, vchs, t) ==
  IF deviceLimitReached(Cardinality(activeDevices(devs, userId)))
  THEN Answer(409, "Device limit exceeded", NULL, usrs, devs, vis, vchs)
  ELSE IF devs[macAddress].exists
  THEN Escaped(usrs, devs, vis, vchs)
  ELSE IF fault = "Device.create"
  THEN Threw(fault, Escaped(usrs, devs, vis, vchs))
  ELSE handleExistingDeviceLogin(userId, macAddress, fault, usrs,
         [devs EXCEPT ![macAddress] = DeviceRow(userId, TRUE, FALSE, t)], vis, vchs, t)

\* POST /signup; the two handlers of a registered e-mail are returned without
\* await, so the catch of the route does not see their throws
signup(email, dateOfBirth, marketingConsent, headers, remoteAddress, fault, usrs, devs, vis, vchs, t) ==
  LET macAddress == extractMacAddress(headers, remoteAddress)
      existingUser == findUserByEmail(usrs, email)
      id == CHOOSE u \in UserIds : ~usrs[u].exists
      created == [usrs EXCEPT ![id] =
                    [exists |-> TRUE, email |-> email, dateOfBirth |-> dateOfBirth,
                     visitCount |-> 1, loyaltyTier |-> "Bronze", isBlocked |-> FALSE]]
      registered == [devs EXCEPT ![macAddress] = DeviceRow(id, TRUE, FALSE, t)]
      failed(usrs2, devs2) ==
        Answer(500, "Registration failed", "SIGNUP_ERROR", usrs2, devs2, vis, vchs)
      welcome == IF marketingConsent
                 THEN generateVoucher(vchs, "reward", id, "Free Welcome Drink", 30, t)
                 ELSE vchs
  IN IF macAddress = NULL
     THEN Answer(400, "Device identification required", NULL, usrs, devs, vis, vchs)
     ELSE IF existingUser # NULL
     THEN IF usrs[existingUser].isBlocked
          THEN Answer(403, "Account access restricted", "SECURITY_ALERT", usrs, devs, vis,
                      vchs)
          ELSE IF hasDevice(devs, macAddress, existingUser)
          THEN handleExistingDeviceLogin(existingUser, macAddress, fault, usrs, devs, vis,
                                         vchs, t)
          ELSE handleNewDeviceForExistingUser(existingUser, macAddress, fault, usrs, devs,
                                              vis, vchs, t)
     ELSE IF isUnder13(dateOfBirth)
     THEN Answer(400, "Age requirement not met", NULL, usrs, devs, vis, vchs)
     ELSE IF devs[macAddress].exists /\ usrs[devs[macAddress].userId].exists
             /\ usrs[devs[macAddress].userId].email # email
     THEN Answer(409, "Device already registered", NULL, usrs, devs, vis, vchs)
     ELSE IF fault = "User.create"
     THEN Threw(fault, failed(usrs, devs))
     ELSE IF devs[macAddress].exists
     THEN failed(created, devs)
     ELSE IF fault = "Device.create"
     THEN Threw(fault, failed(created, devs))
     ELSE IF fault = "Visit.create"
     THEN Threw(fault, failed(created, registered))
     ELSE Answer(201, NULL, "USER_SIGNUP", created, registered, vis + 1,
                 checkRewards(id, "signup", RewardContext(FALSE), created, welcome, t))

\* POST /login
login(email, dateOfBirth, headers, remoteAddress, fault, usrs, devs, vis, vchs, t) ==
  LET macAddress == extractMacAddress(headers, remoteAddress)
      user == findUserByEmail(usrs, email)
      activeDeviceCount == Cardinality(activeDevices(devs, user))
      newLoyaltyTier == calculateLoyaltyTier(usrs[user].visitCount + 1)
      updated == [usrs EXCEPT ![user] = visitUpdate(usrs[user])]
      tierUpgrade == tierUpgradeFlag(newLoyaltyTier, updated[user])
      failed(usrs2, devs2) ==
        Answer(500, "Login failed", "LOGIN_ERROR", usrs2, devs2, vis, vchs)
      visit(devs2) ==
        IF fault = "Visit.create" THEN Threw(fault, failed(updated, devs2))
        ELSE [Answer(200, NULL, "USER_LOGIN", updated, devs2, vis + 1,
                     checkRewards(user, "visit", RewardContext(tierUpgrade), updated,
                                  vchs, t))
                EXCEPT !.clear = <<"user", user>>, !.tierUpgrade = tierUpgrade]
  IN IF macAddress = NULL
     THEN Answer(400, "Device identification required", NULL, usrs, devs, vis, vchs)
     ELSE IF user = NULL
     THEN [Answer(401, "Invalid credentials", NULL, usrs, devs, vis, vchs)
             EXCEPT !.track = <<"user", email>>]
     ELSE IF usrs[user].dateOfBirth # dateOfBirth
     THEN [Answer(401, "Invalid credentials", NULL, usrs, devs, vis, vchs)
             EXCEPT !.track = <<"user", user>>]
     ELSE IF usrs[user].isBlocked
     THEN Answer(403, "Account restricted", "SECURITY_ALERT", usrs, devs, vis, vchs)
     ELSE IF ~hasDevice(devs, macAddress, user)
     THEN IF deviceLimitReached(activeDeviceCount)
          THEN Answer(409, "Device limit exceeded", NULL, usrs, devs, vis, vchs)
          ELSE IF devs[macAddress].exists
          THEN failed(usrs, devs)
          ELSE IF fault = "Device.create"
          THEN Threw(fault, failed(usrs, devs))
          ELSE visit([devs EXCEPT ![macAddress] = DeviceRow(user, TRUE, FALSE, t)])
     ELSE IF devs[macAddress].isBlocked
     THEN Answer(403, "Device blocked", NULL, usrs, devs, vis, vchs)
     ELSE IF ~devs[macAddress].isActive
     THEN visit([devs EXCEPT ![macAddress].isActive = TRUE, ![macAddress].lastSeen = t])
     ELSE visit(devs)

\* faults: the number of requests so far during which a repository call threw
NoAuth == [seen |-> FALSE, faults |-> 0]

AuthEmails == {"a@x.org", UnknownEmail}
BirthDates == {"1990-01-01", "2015-06-01"}
\* header maps of the signup and login requests: none, a well-formed address
\* in x-client-mac or in mac-address, five octets in x-forwarded-mac
AuthHeaders ==
  { NoHeaders,
    [NoHeaders EXCEPT !["x-client-mac"] = MAC1],
    [NoHeaders EXCEPT !["mac-address"] = MAC2],
    [NoHeaders EXCEPT !["x-forwarded-mac"] = ShortMac] }
RemoteAddresses == {IP1, Loopback}

\* the requests of the signup/login specification: the connection is the
\* loopback one only where no header holds a value; a signup for a registered
\* e-mail never reads the date of birth or the consent, one for a guest under
\* 13 never reads the consent
AuthRequests ==
  {r \in [route : {"signup", "login"}, email : AuthEmails, dateOfBirth : BirthDates,
          marketingConsent : BOOLEAN, headers : AuthHeaders,
          remoteAddress : RemoteAddresses, fault : AuthFaults] :
     /\ r.remoteAddress = IP1 \/ r.headers = NoHeaders
     /\ r.route = "login" => ~r.marketingConsent
     /\ (r.route = "signup" /\ r.email = "a@x.org") =>
          r.dateOfBirth = "1990-01-01" /\ ~r.marketingConsent
     /\ isUnder13(r.dateOfBirth) => ~r.marketingConsent}

\* the requests during which no repository call is made to throw
PlainRequests == {r \in AuthRequests : r.fault = "none"}

\* the requests under the e-mail of a registered guest
ReturningRequests == {r \in PlainRequests : r.email # UnknownEmail}

\* the logins of the specification of clearFailedAttempts: from the device
\* registered in InitAbuse
LoginRequests ==
  {r \in PlainRequests :
     r.route = "login" /\ r.headers = [NoHeaders EXCEPT !["x-client-mac"] = MAC1]}

\* the requests of the visit specification: signups and logins of adults
\* that name their device in x-client-mac; signups under a new e-mail, and
\* signups and logins under a registered one, with the date of birth of the
\* registered guest or, from MAC1, with another
VisitBirthDates == {"1990-01-01", "1985-05-05"}
VisitMacs == {MAC1, MAC2, MAC3}
VisitRequests ==
  {r \in [route : {"signup", "login"}, email : AuthEmails,
          dateOfBirth : VisitBirthDates, marketingConsent : {FALSE},
          headers : {[NoHeaders EXCEPT !["x-client-mac"] = m] : m \in VisitMacs},
          remoteAddress : {IP1}, fault : {"none"}] :
     /\ r.email = UnknownEmail => r.route = "signup" /\ r.dateOfBirth = "1985-05-05"
     /\ (r.email # UnknownEmail /\ r.dateOfBirth # "1990-01-01") =>
          r.headers["x-client-mac"] = MAC1}

\* the requests of the specification with throwing repository calls: those of
\* adults that name their device in a header
FaultRequests ==
  {r \in AuthRequests : r.dateOfBirth = "1990-01-01" /\ r.headers # NoHeaders}

\* what lastAuth remembers of a request: the identifier the route used, the
\* well-formed hardware address its headers held (NULL: none), the answer and
\* the audit entry, the user it was answered for, whether any table changed,
\* which rows it created, the tierUpgrade flag handed to checkRewards, and of
\* the state before it: whether the e-mail and the date of birth were those
\* of a user, whether that user was blocked, their tier and visit count, the
\* number of their active devices, and whether the identifier was a device
\* of theirs
AuthRecord(route, email, dateOfBirth, headers, remoteAddress, out, usrs2, devs2, stf2) ==
  LET macAddress == extractMacAddress(headers, remoteAddress)
      before == findUserByEmail(users, email)
  IN [seen |-> TRUE, route |-> route, email |-> email,
      faults |-> IF out.threw = NULL THEN lastAuth.faults ELSE lastAuth.faults + 1,
      threw |-> out.threw,
      macAddress |-> macAddress,
      headerMac |-> firstValidMac(headers, PortalMacHeaders, 1),
      remoteAddress |-> remoteAddress,
      status |-> out.status, error |-> out.error, audit |-> out.audit,
      userId |-> findUserByEmail(usrs2, email),
      changed |-> usrs2 # users \/ devs2 # devices \/ stf2 # staff
                    \/ out.visits # visits \/ out.vouchers # vouchers,
      created |-> [user |-> before = NULL /\ findUserByEmail(usrs2, email) # NULL,
                   device |-> \E m \in DOMAIN devices :
                                devs2[m].exists /\ ~devices[m].exists,
                   visit |-> out.visits # visits],
      tierUpgrade |-> out.tierUpgrade,
      known |-> before # NULL,
      dobMatched |-> before # NULL /\ users[before].dateOfBirth = dateOfBirth,
      blockedBefore |-> before # NULL /\ users[before].isBlocked,
      tierBefore |-> IF before = NULL THEN NULL ELSE users[before].loyaltyTier,
      visitCountBefore |-> IF before = NULL THEN 0 ELSE users[before].visitCount,
      activeBefore |-> IF before = NULL THEN 0
                       ELSE Cardinality(activeDevices(devices, before)),
      registeredBefore |-> before # NULL /\ macAddress # NULL
                             /\ hasDevice(devices, macAddress, before),
      boundElsewhere |-> /\ macAddress # NULL
                         /\ devices[macAddress].exists
                         /\ users[devices[macAddress].userId].exists
                         /\ users[devices[macAddress].userId].email # email,
      deviceBlockedBefore |-> /\ macAddress # NULL
                              /\ devices[macAddress].exists
                              /\ devices[macAddress].isBlocked,
      deviceActiveBefore |-> /\ macAddress # NULL
                             /\ devices[macAddress].exists
                             /\ devices[macAddress].isActive,
      activeAfter |-> macAddress # NULL /\ devs2[macAddress].exists
                        /\ devs2[macAddress].isActive,
      seenNow |-> macAddress # NULL /\ devs2[macAddress].exists
                    /\ devs2[macAddress].lastSeen = now]

\* the effects of an answered request on the state: the tables; the failed
\* attempt it tracks; the attempts it clears; an unhandled rejection ends the
\* process (server.js: process.exit(1)) and with it the store, the bans and
\* the timers.  The failures remembered for a user start anew with every
\* successful POST /login
Answered(route, email, dateOfBirth, headers, remoteAddress, out) ==
  /\ visits' = out.visits
  /\ vouchers' = out.vouchers
  /\ IF out.track # NULL
     THEN /\ lastTrack.calls < MaxAttempts
          /\ \E tr \in {trackFailedAttempt(out.track[1], out.track[2], remoteAddress,
                          "none", attemptStore, out.users, out.devices, staff,
                          blockedIps, timers, now)} :
               /\ attemptStore' = tr.store
               /\ users' = tr.users
               /\ devices' = tr.devices
               /\ staff' = tr.staff
               /\ blockedIps' = tr.blockedIps
               /\ timers' = tr.timers
               /\ failures' = [failures EXCEPT ![out.track] = Append(@, now)]
               /\ lastTrack' = TrackRecord(out.track[1], out.track[2], remoteAddress,
                                           "none", tr, failures'[out.track])
     ELSE /\ users' = out.users
          /\ devices' = out.devices
          /\ UNCHANGED <<staff, lastTrack>>
          /\ IF out.status = 0
             THEN /\ attemptStore' = EmptyStore
                  /\ failures' = [k \in AttemptKeys |-> <<>>]
                  /\ blockedIps' = {}
                  /\ timers' = {}
             ELSE /\ attemptStore' =
                       IF out.clear # NULL
                       THEN clearFailedAttempts(out.clear[1], out.clear[2], attemptStore)
                       ELSE attemptStore
                  /\ failures' =
                       IF route = "login" /\ out.status = 200
                       THEN [failures EXCEPT
                               ![<<"user", findUserByEmail(users, email)>>] = <<>>]
                       ELSE failures
                  /\ UNCHANGED <<blockedIps, timers>>
  /\ lastAuth' = AuthRecord(route, email, dateOfBirth, headers, remoteAddress, out,
                            users', devices', staff')
  /\ UNCHANGED <<now, authFrame>>

\* one POST /signup request
Signup(email, dateOfBirth, marketingConsent, headers, remoteAddress, fault) ==
  /\ visits < MaxVisits
  \* a new account takes a free id, and its welcome voucher a free code
  /\ \/ findUserByEmail(users, email) # NULL
     \/ /\ \E u \in UserIds : ~users[u].exists
        /\ \E c \in Codes : ~vouchers[c].exists
  /\ \E out \in {signup(email, dateOfBirth, marketingConsent, headers, remoteAddress,
                        fault, users, devices, visits, vouchers, now)} :
       /\ fault = "none" \/ (out.threw = fault /\ lastAuth.faults < MaxFaults)
       /\ Answered("signup", email, dateOfBirth, headers, remoteAddress, out)

\* one POST /login request
Login(email, dateOfBirth, headers, remoteAddress, fault) ==
  /\ visits < MaxVisits
  /\ \E out \in {login(email, dateOfBirth, headers, remoteAddress, fault,
                       users, devices, visits, vouchers, now)} :
       /\ fault = "none" \/ (out.threw = fault /\ lastAuth.faults < MaxFaults)
       /\ Answered("login", email, dateOfBirth, headers, remoteAddress, out)

(***************************************************************************)
(* routes/auth.js: POST /login requests in flight together.  Each await of *)
(* the handler that reads or writes a row other requests use is a step.    *)
(***************************************************************************)
LoginCalls == 1..MaxLogins
NoLogin == [pc |-> "idle", macAddress |-> NULL, user |-> NULL, visitCount |-> 0,
            activeDeviceCount |-> 0, status |-> 0]
\* the identifiers of the logins in flight
ConcMacs == {MAC1, MAC2, IP1}
\* the user of the logins in flight, before them
ConcUser == UserRow("a@x.org", "1990-01-01", LOYALTY_TIERS[1].maxVisits, FALSE)

LoginDone(c, status) == logins' = [logins EXCEPT ![c].pc = "done", ![c].status = status]
LoginAt(c, pc) == logins' = [logins EXCEPT ![c].pc = pc]

\* await User.findOne({ where: { email }, include: active devices }) of a
\* request with the user's e-mail and date of birth: the instance in memory
\* holds the visitCount and the active devices read here
LoginFindUser(c, email, macAddress) ==
  /\ logins[c].pc = "idle"
  /\ \E user \in {findUserByEmail(users, email)} :
       /\ user # NULL
       /\ logins' = [logins EXCEPT ![c] =
            [pc |-> IF users[user].isBlocked THEN "done" ELSE "device",
             macAddress |-> macAddress, user |-> user,
             visitCount |-> users[user].visitCount,
             activeDeviceCount |-> Cardinality(activeDevices(devices, user)),
             status |-> IF users[user].isBlocked THEN 403 ELSE 0]]
  /\ UNCHANGED <<now, users, devices, visits, vouchers, lastAuth, tracks, awards, abuseVars,
                 tierVars, portalVars, lastRedeem, calls>>

\* await Device.findOne({ where: { macAddress, userId } }) and the checks on it
LoginFindDevice(c) ==
  /\ logins[c].pc = "device"
  /\ LET f == logins[c]
     IN IF ~hasDevice(devices, f.macAddress, f.user)
        THEN IF deviceLimitReached(f.activeDeviceCount)
             THEN LoginDone(c, 409)
             ELSE LoginAt(c, "create")
        ELSE IF devices[f.macAddress].isBlocked
        THEN LoginDone(c, 403)
        ELSE IF ~devices[f.macAddress].isActive
        THEN LoginAt(c, "reactivate")
        ELSE LoginAt(c, "update")
  /\ UNCHANGED <<now, users, devices, visits, vouchers, lastAuth, tracks, awards, abuseVars,
                 tierVars, portalVars, lastRedeem, calls>>

\* await Device.create: the macAddress is unique, a violation is caught (500)
LoginCreateDevice(c) ==
  /\ logins[c].pc = "create"
  /\ LET f == logins[c]
     IN IF devices[f.macAddress].exists
        THEN LoginDone(c, 500) /\ UNCHANGED devices
        ELSE /\ devices' = [devices EXCEPT ![f.macAddress] =
                              DeviceRow(f.user, TRUE, FALSE, now)]
             /\ LoginAt(c, "update")
  /\ UNCHANGED <<now, users, visits, vouchers, lastAuth, tracks, awards, abuseVars,
                 tierVars, portalVars, lastRedeem, calls>>

\* await device.update({ isActive: true, lastSeen })
LoginReactivate(c) ==
  /\ logins[c].pc = "reactivate"
  /\ devices' = [devices EXCEPT ![logins[c].macAddress].isActive = TRUE,
                                ![logins[c].macAddress].lastSeen = now]
  /\ LoginAt(c, "update")
  /\ UNCHANGED <<now, users, visits, vouchers, lastAuth, tracks, awards, abuseVars,
                 tierVars, portalVars, lastRedeem, calls>>

\* await user.update({ visitCount: user.visitCount + 1, loyaltyTier }): the
\* visitCount written is the one of the instance read by User.findOne
LoginUpdateUser(c) ==
  /\ logins[c].pc = "update"
  /\ LET f == logins[c]
     IN users' = [users EXCEPT
                    ![f.user].visitCount = f.visitCount + 1,
                    ![f.user].loyaltyTier = calculateLoyaltyTier(f.visitCount + 1)]
  /\ LoginAt(c, "visit")
  /\ UNCHANGED <<now, devices, visits, vouchers, lastAuth, tracks, awards, abuseVars,
                 tierVars, portalVars, lastRedeem, calls>>

\* await Visit.create, await checkRewards, clearFailedAttempts, the response
LoginFinish(c) ==
  /\ logins[c].pc = "visit"
  /\ LET f == logins[c]
     IN /\ visits' = visits + 1
        /\ vouchers' = checkRewards(f.user, "visit", RewardContext(FALSE), users, vouchers,
                                    now)
        /\ attemptStore' = clearFailedAttempts("user", f.user, attemptStore)
        /\ failures' = [failures EXCEPT ![<<"user", f.user>>] = <<>>]
  /\ LoginDone(c, 200)
  /\ UNCHANGED <<now, users, devices, lastAuth, tracks, awards, staff, blockedIps, timers,
                 lastTrack, lastReq, injectionBan, tierVars, portalVars, lastRedeem,
                 calls>>

(***************************************************************************)
(* utils/loyalty.js: checkRewards calls in flight together.  A call reads  *)
(* the user, then for each reward of the trigger type whose trigger is met *)
(* counts the recent vouchers (await Voucher.count) and, below maxPerWeek, *)
(* creates the voucher (await generateRewardVoucher); each await is a step.*)
(***************************************************************************)
AwardCalls == 1..MaxAwards
NoAward == [pc |-> "idle", userId |-> NULL, triggerType |-> NULL, context |-> NULL,
            user |-> NULL, i |-> 0, earned |-> 0]
Week == 7 * 24 * 60 * 60
\* the clock of the reward specification advances in steps of four days
AwardStep == 4 * 24 * 60 * 60

RECURSIVE nextReward(_, _, _, _, _)
\* the for loop of checkRewards from index i on: the first reward of the
\* trigger type whose trigger shouldAwardReward finds met, Len + 1 if none
nextReward(i, triggerType, user, context, t) ==
  IF i > Len(DEFAULT_REWARDS) THEN i
  ELSE IF DEFAULT_REWARDS[i].triggerType = triggerType
          /\ triggerMet(user, DEFAULT_REWARDS[i], context, t)
       THEN i
       ELSE nextReward(i + 1, triggerType, user, context, t)

\* the trigger types the calls of the reward specification ask for
AwardTriggers == {"visit_count", "tier_upgrade"}

\* where a call stands at index i
AwardAt(i) == IF i > Len(DEFAULT_REWARDS) THEN "done" ELSE "count"

\* checkRewards up to the first Voucher.count: User.findByPk, Reward.findAll
AwardFindUser(c, userId, triggerType, tierUpgrade) ==
  /\ awards[c].pc = "idle"
  /\ LET context == RewardContext(tierUpgrade)
         i == IF users[userId].exists
              THEN nextReward(1, triggerType, users[userId], context, now)
              ELSE Len(DEFAULT_REWARDS) + 1
     IN awards' = [awards EXCEPT ![c] =
                     [pc |-> AwardAt(i), userId |-> userId, triggerType |-> triggerType,
                      context |-> context, user |-> users[userId], i |-> i,
                      earned |-> 0]]
  /\ UNCHANGED <<now, users, devices, logins, tracks, abuseVars, tierVars, voucherVars,
                 portalVars, authVars>>

\* checkRecentReward: await Voucher.count, compared with reward.maxPerWeek
AwardCount(c) ==
  /\ awards[c].pc = "count"
  /\ LET a == awards[c]
         i == nextReward(a.i + 1, a.triggerType, a.user, a.context, now)
     IN awards' = IF checkRecentReward(a.userId, DEFAULT_REWARDS[a.i], vouchers, now)
                  THEN [awards EXCEPT ![c].i = i, ![c].pc = AwardAt(i)]
                  ELSE [awards EXCEPT ![c].pc = "generate"]
  /\ UNCHANGED <<now, users, devices, logins, tracks, abuseVars, tierVars, voucherVars,
                 portalVars, authVars>>

\* generateRewardVoucher: the voucher is created; on to the next reward
AwardGenerate(c) ==
  /\ awards[c].pc = "generate"
  /\ LET a == awards[c]
         i == nextReward(a.i + 1, a.triggerType, a.user, a.context, now)
     IN /\ vouchers' = generateVoucher(vouchers, "reward", a.userId,
                                       DEFAULT_REWARDS[a.i].value,
                                       DEFAULT_REWARDS[a.i].validityDays, now)
        /\ awards' = [awards EXCEPT ![c].i = i, ![c].pc = AwardAt(i),
                                    ![c].earned = a.earned + 1]
  /\ UNCHANGED <<now, users, devices, logins, tracks, abuseVars, tierVars, lastRedeem,
                 calls, portalVars, authVars>>

\* time passes
AwardTick ==
  /\ now < MaxAwardTicks * AwardStep
  /\ now' = now + AwardStep
  /\ UNCHANGED <<users, devices, voucherVars, abuseVars, tierVars, portalVars, authVars,
                 concVars>>

(***************************************************************************)
(* middleware/abuse.js: trackFailedAttempt calls in flight together.  The  *)
(* code up to the first await runs without interruption; each later await  *)
(* is a step.                                                              *)
(***************************************************************************)
TrackCalls == 1..MaxTracks
NoTrackCall == [pc |-> "idle", type |-> NULL, identifier |-> NULL, ip |-> NULL,
                attemptCount |-> 0, nth |-> 0, result |-> FALSE]
\* the keys of the calls in flight
ConcKeys == {<<"user", "u1">>, <<"staff", "s1">>}

\* cleanOldAttempts, get, filter, push, set, up to await captureAuditLog:
\* attempts is an array of this call (filter returns a new one), so
\* attempts.length stays what it is here; nth is the number of failures
\* recorded for the key so far, this one included
TrackPush(c, type, identifier, ip) ==
  /\ tracks[c].pc = "idle"
  /\ \E counted \in {countFailedAttempt(type, identifier, ip, attemptStore, now)} :
       /\ attemptStore' = counted.store
       /\ failures' = [failures EXCEPT ![<<type, identifier>>] = Append(@, now)]
       /\ tracks' = [tracks EXCEPT ![c] =
            [pc |-> "compare", type |-> type, identifier |-> identifier, ip |-> ip,
             attemptCount |-> counted.attemptCount,
             nth |-> Len(failures'[<<type, identifier>>]), result |-> FALSE]]
  /\ UNCHANGED <<now, users, devices, staff, blockedIps, timers, lastTrack, lastReq,
                 injectionBan, logins, awards, tierVars, voucherVars, portalVars, authVars>>

\* after the audit entry: if (attempts.length >= MAX_FAILED_ATTEMPTS)
TrackCompare(c) ==
  /\ tracks[c].pc = "compare"
  /\ tracks' = IF shouldBlock(tracks[c].attemptCount)
               THEN [tracks EXCEPT ![c].pc = "block"]
               ELSE [tracks EXCEPT ![c].pc = "done", ![c].result = FALSE]
  /\ UNCHANGED <<now, users, devices, logins, awards, abuseVars, tierVars, voucherVars,
                 portalVars, authVars>>

\* handleExcessiveFailedAttempts: await blockDevice / blockStaff / blockUser,
\* then blockIp
TrackBlock(c, fault) ==
  /\ tracks[c].pc = "block"
  /\ \E out \in {handleExcessiveFailedAttempts(tracks[c].type, tracks[c].identifier,
                   tracks[c].ip, fault, users, devices, staff, blockedIps, timers, now)} :
       /\ users' = out.users
       /\ devices' = out.devices
       /\ staff' = out.staff
       /\ blockedIps' = out.blockedIps
       /\ timers' = out.timers
  /\ tracks' = [tracks EXCEPT ![c].pc = "alert"]
  /\ UNCHANGED <<now, attemptStore, failures, lastTrack, lastReq, injectionBan, logins, awards,
                 tierVars, voucherVars, portalVars, authVars>>

\* after the SECURITY_ALERT audit entry: return true
TrackReturn(c) ==
  /\ tracks[c].pc = "alert"
  /\ tracks' = [tracks EXCEPT ![c].pc = "done", ![c].result = TRUE]
  /\ UNCHANGED <<now, users, devices, logins, awards, abuseVars, tierVars, voucherVars,
                 portalVars, authVars>>

(***************************************************************************)
(* calculateLoyaltyTier as an operation                                    *)
(***************************************************************************)
ComputeTier ==
  /\ tierOut = "none"
  /\ tierOut' = calculateLoyaltyTier(tierIn)
  /\ UNCHANGED <<tierIn, tierFrame>>

(***************************************************************************)
(* Specifications                                                          *)
(***************************************************************************)
TierIdle == tierIn = 0 /\ tierOut = "none"
VoucherIdle ==
  /\ vouchers = [code \in Codes |-> NoVoucher]
  /\ lastRedeem = NoRedeem
  /\ calls = [c \in 1..MaxCalls |-> NoCall]

RepoIdle ==
  /\ users = [u \in UserIds |-> NoUser]
  /\ devices = [m \in Identifiers |-> NoDevice]
PortalIdle == lastProbe = NoProbe
AuthIdle == visits = 0 /\ lastAuth = NoAuth
ConcIdle ==
  /\ logins = [c \in LoginCalls |-> NoLogin]
  /\ tracks = [c \in TrackCalls |-> NoTrackCall]
  /\ awards = [c \in AwardCalls |-> NoAward]
AbuseIdle ==
  /\ staff = [i \in StaffIds |-> NoStaff]
  /\ attemptStore = EmptyStore
  /\ blockedIps = {}
  /\ timers = {}
  /\ failures = [k \in AttemptKeys |-> <<>>]
  /\ lastTrack = NoTrack
  /\ lastReq = NoReq
  /\ injectionBan = [ip \in Ips |-> -1]

InitTier ==
  /\ tierIn \in 0..MaxVisitCount
  /\ tierOut = "none"
  /\ now = 0
  /\ VoucherIdle /\ RepoIdle /\ PortalIdle /\ AbuseIdle /\ AuthIdle /\ ConcIdle
NextTier == ComputeTier
SpecTier == InitTier /\ [][NextTier]_vars

\* every code is unknown or names a voucher as issued, with some expiry date
InitVoucher ==
  /\ TierIdle
  /\ now = 0
  /\ vouchers \in [Codes -> {NoVoucher} \cup {FreshVoucher(e) : e \in 0..MaxVoucherTime}]
  /\ lastRedeem = NoRedeem
  /\ calls = [c \in 1..MaxCalls |-> NoCall]
  /\ RepoIdle /\ PortalIdle /\ AbuseIdle /\ AuthIdle /\ ConcIdle
NextVoucher ==
  \/ \E code \in Codes, staffId \in StaffIds : RedeemVoucher(code, staffId)
  \/ VoucherTick
SpecVoucher == InitVoucher /\ [][NextVoucher]_vars

NextVoucherConc ==
  \/ \E c \in 1..MaxCalls, code \in Codes, staffId \in StaffIds : RedeemRead(c, code, staffId)
  \/ \E c \in 1..MaxCalls : RedeemWrite(c)
  \/ VoucherTick
SpecVoucherConc == InitVoucher /\ [][NextVoucherConc]_vars

\* the guests of the portal specification: u1 (blocked or not) and u2; MAC1 is
\* unknown or a device of either in any state; MAC2 is unknown; IP1 is the
\* macAddress of an active device (a signup that fell back to the connection
\* address, middleware/auth.js 49); the probes arrive at some time after the
\* devices were last seen
InitPortal ==
  /\ TierIdle /\ VoucherIdle /\ PortalIdle /\ AbuseIdle /\ AuthIdle /\ ConcIdle
  /\ now \in 1..MaxPortalTime
  /\ \E blocked \in BOOLEAN :
       users = [u \in UserIds |->
                  IF u = "u1" THEN UserRow("a@x.org", "1990-01-01", 3, blocked)
                  ELSE UserRow("b@x.org", "1985-05-05", 7, FALSE)]
  /\ \E d1 \in {NoDevice} \cup
                {DeviceRow(u, a, b, 0) : u \in UserIds, a \in BOOLEAN, b \in BOOLEAN} :
       devices = [m \in Identifiers |->
                    IF m = MAC1 THEN d1
                    ELSE IF m = IP1 THEN DeviceRow("u2", TRUE, FALSE, 0)
                    ELSE NoDevice]
NextPortal ==
  \E r \in PortalRequests, fault \in PortalFaults :
     PortalRequest(r.path, r.userAgent, r.headers, r.ip, fault)
SpecPortal == InitPortal /\ [][NextPortal]_vars

\* the abuse specifications start with an empty store and no ban; u1, u2, the
\* device MAC1 of u1 and the staff member s1 exist and are not blocked
InitAbuse ==
  /\ TierIdle /\ VoucherIdle /\ PortalIdle /\ AuthIdle /\ ConcIdle
  /\ now = 0
  /\ users = [u \in UserIds |->
                IF u = "u1" THEN UserRow("a@x.org", "1990-01-01", 3, FALSE)
                ELSE UserRow("b@x.org", "1985-05-05", 7, FALSE)]
  /\ devices = [m \in Identifiers |->
                  IF m = MAC1 THEN DeviceRow("u1", TRUE, FALSE, 0) ELSE NoDevice]
  /\ staff = [i \in StaffIds |-> IF i = "s1" THEN StaffRow ELSE NoStaff]
  /\ attemptStore = EmptyStore
  /\ blockedIps = {}
  /\ timers = {}
  /\ failures = [k \in AttemptKeys |-> <<>>]
  /\ lastTrack = NoTrack
  /\ lastReq = NoReq
  /\ injectionBan = [ip \in Ips |-> -1]

\* failed attempts: trackFailedAttempt, clearFailedAttempts, the sweep, the
\* unban timers and the clock
NextAttempts ==
  \/ \E k \in TrackedKeys, ip \in Ips, fault \in BlockFaults :
       TrackFailedAttempt(k[1], k[2], ip, fault)
  \/ \E k \in TrackedKeys : ClearFailedAttempts(k[1], k[2])
  \/ Sweep
  \/ \E timer \in timers : TimerFire(timer)
  \/ AbuseTick
SpecAttempts == InitAbuse /\ [][NextAttempts]_vars

\* requests through the middleware chain, the sweep, the unban timers and the
\* clock
NextAbuse ==
  \/ \E r \in AbuseRequests : ServerRequest(r.path, r.query, r.userAgent, r.ip)
  \/ Sweep
  \/ \E timer \in timers : TimerFire(timer)
  \/ AbuseTick
SpecAbuse == InitAbuse /\ [][NextAbuse]_vars

\* the guests of the signup and login routes: u1, with a visit count at
\* Bronze's or at Platinum's maxVisits, owns the active device MAC1; no
\* other user exists; no voucher is issued; nothing is tracked or banned
AuthVisitCounts == {4, LOYALTY_TIERS[4].maxVisits}
InitAuth ==
  /\ TierIdle /\ VoucherIdle /\ PortalIdle /\ AuthIdle /\ ConcIdle
  /\ now = 0
  /\ \E visitCount \in AuthVisitCounts :
       users = [u \in UserIds |->
                  IF u = "u1" THEN UserRow("a@x.org", "1990-01-01", visitCount, FALSE)
                  ELSE NoUser]
  /\ devices = [m \in Identifiers |->
                  IF m = MAC1 THEN DeviceRow("u1", TRUE, FALSE, 0) ELSE NoDevice]
  /\ staff = [i \in StaffIds |-> NoStaff]
  /\ attemptStore = EmptyStore
  /\ blockedIps = {}
  /\ timers = {}
  /\ failures = [k \in AttemptKeys |-> <<>>]
  /\ lastTrack = NoTrack
  /\ lastReq = NoReq
  /\ injectionBan = [ip \in Ips |-> -1]
NextAuth ==
  \/ \E r \in PlainRequests :
       /\ r.route = "signup"
       /\ Signup(r.email, r.dateOfBirth, r.marketingConsent, r.headers, r.remoteAddress,
                 r.fault)
  \/ \E r \in PlainRequests :
       /\ r.route = "login"
       /\ Login(r.email, r.dateOfBirth, r.headers, r.remoteAddress, r.fault)
SpecAuth == InitAuth /\ [][NextAuth]_vars

\* the requests of a registered guest: signups and logins under the e-mail of
\* the user of InitAuth
NextReturning ==
  \/ \E r \in ReturningRequests :
       /\ r.route = "signup"
       /\ Signup(r.email, r.dateOfBirth, r.marketingConsent, r.headers, r.remoteAddress,
                 r.fault)
  \/ \E r \in ReturningRequests :
       /\ r.route = "login"
       /\ Login(r.email, r.dateOfBirth, r.headers, r.remoteAddress, r.fault)
SpecReturning == InitAuth /\ [][NextReturning]_vars

\* an address that made RateLimit requests at time 0, all of them remembered
InitRate ==
  /\ TierIdle /\ VoucherIdle /\ PortalIdle /\ AuthIdle /\ ConcIdle
  /\ now = 0
  /\ users = [u \in UserIds |->
                IF u = "u1" THEN UserRow("a@x.org", "1990-01-01", 3, FALSE) ELSE NoUser]
  /\ devices = [m \in Identifiers |->
                  IF m = MAC1 THEN DeviceRow("u1", TRUE, FALSE, 0) ELSE NoDevice]
  /\ staff = [i \in StaffIds |-> NoStaff]
  /\ attemptStore = [EmptyStore EXCEPT ![<<"requests", IP1>>] = [i \in 1..RateLimit |-> 0]]
  /\ blockedIps = {}
  /\ timers = {}
  /\ failures = [k \in AttemptKeys |-> <<>>]
  /\ lastTrack = NoTrack
  /\ lastReq = [NoReq EXCEPT !.log[IP1] = [i \in 1..RateLimit |-> 0]]
  /\ injectionBan = [ip \in Ips |-> -1]
\* requests for the portal page, the sweep, the unban timers and the clock
NextRate ==
  \/ \E r \in RateRequests : ServerRequest(r.path, r.query, r.userAgent, r.ip)
  \/ Sweep
  \/ \E timer \in timers : TimerFire(timer)
  \/ AbuseTick
SpecRate == InitRate /\ [][NextRate]_vars

\* devices registered at time 0: the first fromFirst of RegisteredMacs from
\* IP1, the next fromSecond from IP2
InitRegistrations ==
  /\ TierIdle /\ VoucherIdle /\ PortalIdle /\ AuthIdle /\ ConcIdle
  /\ now = 0
  /\ users = [u \in UserIds |->
                IF u = "u1" THEN UserRow("a@x.org", "1990-01-01", 3, FALSE)
                ELSE UserRow("b@x.org", "1985-05-05", 7, FALSE)]
  /\ \E fromFirst \in 0..Len(RegisteredMacs) :
       \E fromSecond \in 0..(Len(RegisteredMacs) - fromFirst) :
         devices = [m \in {RegisteredMacs[i] : i \in 1..Len(RegisteredMacs)} |->
                      LET i == CHOOSE j \in 1..Len(RegisteredMacs) : RegisteredMacs[j] = m
                      IN IF i <= fromFirst THEN RegisteredDevice("u1", 0, IP1)
                         ELSE IF i <= fromFirst + fromSecond
                         THEN RegisteredDevice("u2", 0, IP2)
                         ELSE NoDevice]
  /\ staff = [i \in StaffIds |-> NoStaff]
  /\ attemptStore = EmptyStore
  /\ blockedIps = {}
  /\ timers = {}
  /\ failures = [k \in AttemptKeys |-> <<>>]
  /\ lastTrack = NoTrack
  /\ lastReq = NoReq
  /\ injectionBan = [ip \in Ips |-> -1]
\* requests for the signup route and the portal page, the sweep, the unban
\* timers and the clock
NextRegistrations ==
  \/ \E r \in RegistrationRequests :
       ServerRequest(r.path, r.query, r.userAgent, r.ip)
  \/ Sweep
  \/ \E timer \in timers : TimerFire(timer)
  \/ AbuseTick
SpecRegistrations == InitRegistrations /\ [][NextRegistrations]_vars

\* a guest on the first visit and one on the fifth, no voucher issued yet
InitAwards ==
  /\ TierIdle /\ VoucherIdle /\ PortalIdle /\ AbuseIdle /\ AuthIdle /\ ConcIdle
  /\ now = 0
  /\ users = [u \in UserIds |->
                IF u = "u1" THEN UserRow("a@x.org", "1990-01-01", 1, FALSE)
                ELSE UserRow("b@x.org", "1985-05-05", 5, FALSE)]
  /\ devices = [m \in Identifiers |-> NoDevice]
\* checkRewards calls in flight, and the clock
NextAwards ==
  \/ \E c \in AwardCalls, userId \in UserIds, triggerType \in AwardTriggers,
         tierUpgrade \in BOOLEAN :
       AwardFindUser(c, userId, triggerType, tierUpgrade)
  \/ \E c \in AwardCalls : AwardCount(c)
  \/ \E c \in AwardCalls : AwardGenerate(c)
  \/ AwardTick
SpecAwards == InitAwards /\ [][NextAwards]_vars

\* u1 owns MAC1, in any state (active or not, blocked or not), last seen at
\* time 0; a second guest, if there is one, owns the active device MAC2
InitVisits ==
  /\ TierIdle /\ VoucherIdle /\ PortalIdle /\ AuthIdle /\ ConcIdle /\ AbuseIdle
  /\ now = 0
  /\ \E second \in BOOLEAN, isActive \in BOOLEAN, isBlocked \in BOOLEAN :
       /\ users = [u \in UserIds |->
                     IF u = "u1" THEN UserRow("a@x.org", "1990-01-01", 3, FALSE)
                     ELSE IF second THEN UserRow("b@x.org", "1985-05-05", 7, FALSE)
                     ELSE NoUser]
       /\ devices = [m \in Identifiers \cup {MAC3} |->
                       CASE m = MAC1 -> DeviceRow("u1", isActive, isBlocked, 0)
                         [] m = MAC2 /\ second -> DeviceRow("u2", TRUE, FALSE, 0)
                         [] OTHER -> NoDevice]
\* time passes between the visits (no unban timer comes due so soon)
VisitTick ==
  /\ now < MaxVisitTicks * ClockStep
  /\ now' = now + ClockStep
  /\ UNCHANGED <<users, devices, abuseVars, abuseFrame>>

\* signups and logins, and the clock
NextVisits ==
  \/ \E r \in VisitRequests :
       /\ r.route = "signup"
       /\ Signup(r.email, r.dateOfBirth, r.marketingConsent, r.headers, r.remoteAddress,
                 r.fault)
  \/ \E r \in VisitRequests :
       /\ r.route = "login"
       /\ Login(r.email, r.dateOfBirth, r.headers, r.remoteAddress, r.fault)
  \/ VisitTick
SpecVisits == InitVisits /\ [][NextVisits]_vars

\* clients that probe and follow the redirects they are answered with
NextFollow ==
  \/ \E r \in PortalRequests, fault \in PortalFaults :
       ClientRequest(r.path, r.userAgent, r.headers, r.ip, fault, 0)
  \/ \E fault \in PortalFaults : FollowRedirect(fault)
SpecFollow == InitPortal /\ [][NextFollow]_vars

\* a user with one active and one inactive device, and logins in flight
InitLoginConc ==
  /\ TierIdle /\ VoucherIdle /\ PortalIdle /\ AbuseIdle /\ AuthIdle /\ ConcIdle
  /\ now = 0
  /\ users = [u \in UserIds |-> IF u = "u1" THEN ConcUser ELSE NoUser]
  /\ devices = [m \in Identifiers |->
                  CASE m = MAC1 -> DeviceRow("u1", TRUE, FALSE, 0)
                    [] m = MAC2 -> DeviceRow("u1", FALSE, FALSE, 0)
                    [] OTHER -> NoDevice]
NextLoginConc ==
  \/ \E c \in LoginCalls, macAddress \in ConcMacs :
       LoginFindUser(c, ConcUser.email, macAddress)
  \/ \E c \in LoginCalls : LoginFindDevice(c)
  \/ \E c \in LoginCalls : LoginCreateDevice(c)
  \/ \E c \in LoginCalls : LoginReactivate(c)
  \/ \E c \in LoginCalls : LoginUpdateUser(c)
  \/ \E c \in LoginCalls : LoginFinish(c)
SpecLoginConc == InitLoginConc /\ [][NextLoginConc]_vars

\* trackFailedAttempt calls in flight
NextTrackConc ==
  \/ \E c \in TrackCalls, k \in ConcKeys, ip \in Ips : TrackPush(c, k[1], k[2], ip)
  \/ \E c \in TrackCalls : TrackCompare(c)
  \/ \E c \in TrackCalls, fault \in BlockFaults : TrackBlock(c, fault)
  \/ \E c \in TrackCalls : TrackReturn(c)
SpecTrackConc == InitAbuse /\ [][NextTrackConc]_vars

\* logins with and without the date of birth of the user, clearFailedAttempts
\* calls, the sweep, the unban timers and the clock
NextClear ==
  \/ \E r \in LoginRequests :
       Login(r.email, r.dateOfBirth, r.headers, r.remoteAddress, r.fault)
  \/ \E k \in TrackedKeys : ClearFailedAttempts(k[1], k[2])
  \/ Sweep
  \/ \E timer \in timers : TimerFire(timer)
  \/ AbuseTick
SpecClear == InitAbuse /\ [][NextClear]_vars

\* signup and login requests of adults during which a repository call may
\* throw
NextAuthFaults ==
  \/ \E r \in FaultRequests :
       /\ r.route = "signup"
       /\ Signup(r.email, r.dateOfBirth, r.marketingConsent, r.headers, r.remoteAddress,
                 r.fault)
  \/ \E r \in FaultRequests :
       /\ r.route = "login"
       /\ Login(r.email, r.dateOfBirth, r.headers, r.remoteAddress, r.fault)
SpecAuthFaults == InitAuth /\ [][NextAuthFaults]_vars

(***************************************************************************)
(* C1  calculateLoyaltyTier gives the documented band of every visit count *)
(*     v >= 0 (Platinum for every v >= 30) and never decreases as v grows. *)
(***************************************************************************)
C1_TierBands ==
  tierOut # "none" =>
    /\ tierOut = TierBand(tierIn)
    /\ \A w \in 0..tierIn :
         TierRank(calculateLoyaltyTier(w)) <= TierRank(tierOut)

(***************************************************************************)
(* C9  Sequential redeemVoucher calls: an unknown code gives "not found";  *)
(*     a redeemed voucher gives "already redeemed" and nothing changes;    *)
(*     a never-redeemed voucher called after its expiry gives "expired"    *)
(*     and stays unredeemed; otherwise the call succeeds and sets          *)
(*     isRedeemed, redeemedAt and redeemedBy of that voucher only.         *)
(***************************************************************************)
C9_RedeemExactlyOnce ==
  lastRedeem.result # NULL =>
    LET code == lastRedeem.code
        b == lastRedeem.before[code]
        unchanged == lastRedeem.after = lastRedeem.before
    IN /\ vouchers = lastRedeem.after
       /\ ~b.exists => lastRedeem.result = "Voucher not found" /\ unchanged
       /\ b.exists /\ b.isRedeemed =>
            lastRedeem.result = "Voucher already redeemed" /\ unchanged
       /\ b.exists /\ ~b.isRedeemed /\ lastRedeem.at > b.expiryDate =>
            lastRedeem.result = "Voucher expired" /\ unchanged
       /\ b.exists /\ ~b.isRedeemed /\ lastRedeem.at <= b.expiryDate =>
            /\ lastRedeem.result = "success"
            /\ lastRedeem.after =
                 [lastRedeem.before EXCEPT ![code] =
                    [b EXCEPT !.isRedeemed = TRUE, !.redeemedAt = lastRedeem.at,
                              !.redeemedBy = lastRedeem.staffId]]

\* a redeemed voucher is presented again after its expiry date
C9_Witness ==
  /\ lastRedeem.result = "Voucher already redeemed"
  /\ lastRedeem.at > lastRedeem.before[lastRedeem.code].expiryDate
  /\ lastRedeem.before[lastRedeem.code].redeemedBy # lastRedeem.staffId

(***************************************************************************)
(* C10 Concurrent redeemVoucher calls on one code: at most one call        *)
(*     returns success, and a redeemed voucher's redeemedBy and redeemedAt *)
(*     are never written again.                                            *)
(***************************************************************************)
SuccessfulCalls(code) ==
  {c \in 1..MaxCalls : calls[c].result = "success" /\ calls[c].code = code}

C10_SingleRedemption ==
  [][ /\ \A code \in Codes : Cardinality(SuccessfulCalls(code))' <= 1
      /\ \A code \in Codes :
           vouchers[code].isRedeemed =>
             /\ vouchers'[code].redeemedBy = vouchers[code].redeemedBy
             /\ vouchers'[code].redeemedAt = vouchers[code].redeemedAt ]_vars

(***************************************************************************)
(* Claims about the captive portal read the last probe: the device the     *)
(* request resolved to and the Device table before and after the decision. *)
(***************************************************************************)
ProbeAnswered == lastProbe.seen /\ lastProbe.probe

\* the five conditions of an authorized device, on the table the decision read
ProbeDeviceGood ==
  LET m == lastProbe.macAddress
      d == lastProbe.before[m]
  IN /\ m \in WellFormedMacs
     /\ d.exists
     /\ ~d.isBlocked
     /\ ~users[d.userId].isBlocked
     /\ d.isActive

ProbeFrame ==
  /\ lastProbe.isAuthorized = "true" =>
       lastProbe.after = [lastProbe.before EXCEPT ![lastProbe.macAddress].lastSeen = now]
  /\ lastProbe.isAuthorized # "true" => lastProbe.after = lastProbe.before
  /\ devices = lastProbe.after

(***************************************************************************)
(* C5  checkDeviceAuthorization returns true if and only if the identifier *)
(*     is a well-formed hardware address of an existing, unblocked, active *)
(*     device whose user is not blocked; it refreshes lastSeen exactly     *)
(*     when it returns true and changes no record otherwise.               *)
(*     As stated (C5_AuthorizedIff) this fails when a repository call      *)
(*     throws; C5_AuthorizedIffNoFault adds that the lookup and the update *)
(*     succeed.                                                            *)
(***************************************************************************)
C5_AuthorizedIff ==
  ProbeAnswered =>
    /\ lastProbe.isAuthorized = "true" <=> ProbeDeviceGood
    /\ ProbeFrame

C5_AuthorizedIffNoFault ==
  ProbeAnswered =>
    /\ lastProbe.isAuthorized = "true" <=> (ProbeDeviceGood /\ lastProbe.fault = "none")
    /\ ProbeFrame

\* an authorized probe whose device's lastSeen moved forward
C5_Witness ==
  /\ ProbeAnswered
  /\ lastProbe.isAuthorized = "true"
  /\ lastProbe.after[lastProbe.macAddress].lastSeen
       > lastProbe.before[lastProbe.macAddress].lastSeen

(***************************************************************************)
(* C6  The answer to a probe is decided by the probe kind and the          *)
(*     authorization decision: authorized, /generate_204 gets an empty     *)
(*     204, iOS and Apple the success HTML, Windows the fixed token, any   *)
(*     other probe "OK"; not authorized, a 302 to /portal with the device  *)
(*     identifier and the probe-source tag.                                *)
(***************************************************************************)
ProbeKind(path) ==
  CASE path = "/generate_204" -> "android"
    [] path = "/hotspot-detect.html" -> "ios"
    [] path = "/library/test/success.html" -> "apple"
    [] path \in {"/connecttest.txt", "/ncsi.txt"} -> "windows"
    [] OTHER -> "generic"

C6_ProbeResponses ==
  ProbeAnswered =>
    LET kind == ProbeKind(lastProbe.path)
        r == lastProbe.response
    IN IF lastProbe.isAuthorized = "true"
       THEN /\ r.location = NoLocation
            /\ kind = "android" => r.status = 204 /\ r.body = ""
            /\ kind \in {"ios", "apple"} => r.status = 200 /\ r.body = successHtml
            /\ kind = "windows" => r.status = 200 /\ r.body = "Microsoft Connect Test"
            /\ kind = "generic" => r.status = 200 /\ r.body = "OK"
       ELSE /\ r.status = 302
            /\ r.location = [path |-> "/portal", device |-> lastProbe.macAddress,
                             source |-> kind]

\* /generate_204 from a device that is not registered
C6_Witness ==
  /\ ProbeAnswered
  /\ lastProbe.path = "/generate_204"
  /\ ~lastProbe.before[lastProbe.macAddress].exists
  /\ lastProbe.response.status = 302
  /\ lastProbe.response.location.device = MAC2

(***************************************************************************)
(* C7  A probe whose authorization decision meets a throwing repository    *)
(*     call (the device lookup or the lastSeen update) is answered with    *)
(*     the 302 redirect to the portal, never with the authorized response  *)
(*     and never with a 5xx.                                               *)
(***************************************************************************)
C7_FailureRedirects ==
  ProbeAnswered /\ lastProbe.fault \in {"findOne", "update"} =>
    /\ lastProbe.isAuthorized # "true"
    /\ lastProbe.response.status = 302
    /\ lastProbe.response.location.path = "/portal"
    /\ lastProbe.after = lastProbe.before

\* the lastSeen update of an otherwise authorized device throws
C7_Witness ==
  /\ ProbeAnswered
  /\ lastProbe.fault = "update"
  /\ ProbeDeviceGood
  /\ lastProbe.response.status = 302

C4_BannedIpStaysOut ==
  lastReq.seen =>
    /\ lastReq.reason = "Potential injection attack detected" =>
         lastReq.outcome = "rejected" /\ lastReq.status = 403
    /\ (injectionBan[lastReq.ip] >= 0
          /\ lastReq.at - injectionBan[lastReq.ip] < BLOCK_DURATION) =>
         lastReq.outcome = "rejected"

(***************************************************************************)
(* Claims about signup and login read the last request of either route.    *)
(***************************************************************************)
AuthCompleted == lastAuth.seen /\ lastAuth.status \in {200, 201}

(***************************************************************************)
(* C2  After every completed signup or login the stored user's loyaltyTier *)
(*     is the documented band of its visitCount, and loyaltyTier is        *)
(*     written by no step other than a completed signup or login.          *)
(***************************************************************************)
C2_StoredTierMatchesVisits ==
  AuthCompleted =>
       users[lastAuth.userId].loyaltyTier = TierBand(users[lastAuth.userId].visitCount)

(***************************************************************************)
(* C8  A signup or login whose headers hold no well-formed hardware        *)
(*     address is refused with "Device identification required" and        *)
(*     creates or changes no record; the identifier a request is served    *)
(*     under is never its connection address nor a malformed header value. *)
(***************************************************************************)
C8_IdentificationRequired ==
  lastAuth.seen =>
    /\ lastAuth.headerMac = NULL =>
         /\ lastAuth.error = "Device identification required"
         /\ ~lastAuth.changed
    /\ lastAuth.error # "Device identification required" =>
         /\ lastAuth.macAddress # lastAuth.remoteAddress
         /\ isValidMacAddress(lastAuth.macAddress)

(***************************************************************************)
(* C11  A login, or a signup for a registered e-mail, of a user that is    *)
(* not blocked (the login with the user's date of birth), from an          *)
(* identifier that is not a device of the user while the user has          *)
(* maxDevices active devices, is answered 409 'Device limit exceeded':     *)
(* no Device is created and no table changes (visit count, tier, visits).  *)
(***************************************************************************)
AtDeviceLimit ==
  /\ lastAuth.seen
  /\ lastAuth.known
  /\ lastAuth.route = "login" => lastAuth.dobMatched
  /\ ~lastAuth.blockedBefore
  /\ lastAuth.macAddress # NULL
  /\ ~lastAuth.registeredBefore
  /\ lastAuth.activeBefore = maxDevices

C11_DeviceLimitRejects ==
  AtDeviceLimit =>
    /\ lastAuth.status = 409
    /\ lastAuth.error = "Device limit exceeded"
    /\ ~lastAuth.created.device
    /\ ~lastAuth.changed

C11_Witness ==
  /\ AtDeviceLimit
  /\ lastAuth.route = "login"
  /\ lastAuth.status = 409
  /\ visits > 0

(***************************************************************************)
(* C12  The login that raises a user's visitCount from 4 to 5 stores the   *)
(* tier Silver and leaves the user with exactly one voucher of the Silver  *)
(* tier_upgrade reward (triggerValue 5, 'Free Pastry'); while the          *)
(* visitCount is below 5 the user holds no such voucher.                   *)
(***************************************************************************)
SilverReward == DEFAULT_REWARDS[2]

RewardVouchers(userId, reward) ==
  {c \in Codes : /\ vouchers[c].exists
                 /\ vouchers[c].userId = userId
                 /\ vouchers[c].type = "reward"
                 /\ vouchers[c].value = reward.value}

C12_SilverVoucherAtFive ==
  (lastAuth.seen /\ lastAuth.status = 200) =>
    /\ lastAuth.visitCountBefore + 1 = SilverReward.triggerValue =>
         /\ users[lastAuth.userId].loyaltyTier = "Silver"
         /\ Cardinality(RewardVouchers(lastAuth.userId, SilverReward)) = 1
    /\ lastAuth.visitCountBefore + 1 < SilverReward.triggerValue =>
         RewardVouchers(lastAuth.userId, SilverReward) = {}

(***************************************************************************)
(* C17  On every successful login the tierUpgrade flag handed to           *)
(* checkRewards is true exactly when the tier of the incremented           *)
(* visitCount differs from the tier the user held before the login.        *)
(***************************************************************************)
C17_TierUpgradeFlag ==
  (lastAuth.seen /\ lastAuth.status = 200) =>
    (lastAuth.tierUpgrade <=>
       calculateLoyaltyTier(lastAuth.visitCountBefore + 1) # lastAuth.tierBefore)

(***************************************************************************)
(* C14  No exception escapes a signup or login request: every request is   *)
(* answered, and a request during which a call threw is answered 500 with  *)
(* an audit entry of severity error.                                       *)
(***************************************************************************)
ErrorAudits == {"SIGNUP_ERROR", "LOGIN_ERROR"}

C14_ExceptionsCaught ==
  lastAuth.seen =>
    /\ lastAuth.status # 0
    /\ lastAuth.threw # NULL => lastAuth.status = 500 /\ lastAuth.audit \in ErrorAudits

(***************************************************************************)
(* C15  After a signup for an e-mail that was not registered, either the   *)
(* User, the Device and the Visit were all created or none of them was.    *)
(***************************************************************************)
C15_SignupAtomic ==
  (lastAuth.seen /\ lastAuth.route = "signup" /\ ~lastAuth.known) =>
    \/ lastAuth.created.user /\ lastAuth.created.device /\ lastAuth.created.visit
    \/ ~lastAuth.created.user /\ ~lastAuth.created.device /\ ~lastAuth.created.visit

LoginsSucceeded == {c \in LoginCalls : logins[c].pc = "done" /\ logins[c].status = 200}

C13_EveryLoginCounted ==
  (\A c \in LoginCalls : logins[c].pc \in {"idle", "done"}) =>
    users["u1"].visitCount = ConcUser.visitCount + Cardinality(LoginsSucceeded)

(***************************************************************************)
(* C18  Each trackFailedAttempt call in flight holds as its count the      *)
(* number of failures recorded for its key up to and including its own, so *)
(* no two calls of a key hold the same count; a call whose failure is the  *)
(* n-th with n >= MAX_FAILED_ATTEMPTS goes on to block and returns true.   *)
(***************************************************************************)
C18_CountPerCall ==
  \A c \in TrackCalls :
    tracks[c].pc # "idle" =>
      /\ tracks[c].attemptCount = tracks[c].nth
      /\ \A d \in TrackCalls \ {c} :
           (/\ tracks[d].pc # "idle"
            /\ tracks[d].type = tracks[c].type
            /\ tracks[d].identifier = tracks[c].identifier) =>
             tracks[d].attemptCount # tracks[c].attemptCount
      /\ tracks[c].nth >= MAX_FAILED_ATTEMPTS =>
           tracks[c].pc \in {"compare", "block", "alert"} \/ tracks[c].result
      /\ tracks[c].result => tracks[c].nth >= MAX_FAILED_ATTEMPTS

\* the third failure of a key was answered true while the call of the first
\* still waits for its audit entry
C18_Witness ==
  \E c, d \in TrackCalls :
    /\ tracks[c].type = tracks[d].type /\ tracks[c].identifier = tracks[d].identifier
    /\ tracks[c].nth = MAX_FAILED_ATTEMPTS
    /\ tracks[c].pc = "done" /\ tracks[c].result
    /\ tracks[d].nth = 1 /\ tracks[d].pc = "compare"

(***************************************************************************)
(* C19  A request that comes to the injection check of abuseMiddleware and *)
(* whose path or query string matches an injection pattern is rejected and *)
(* its address is banned.                                                  *)
(***************************************************************************)
MatchesInjection(text) ==
  \E i \in 1..Len(suspiciousPatterns) : patternTest(suspiciousPatterns[i], text)

C19_InjectionRejected ==
  (/\ lastReq.seen
   /\ lastReq.reached
   /\ MatchesInjection(lastReq.path) \/ MatchesInjection(lastReq.query)) =>
    lastReq.outcome = "rejected" /\ lastReq.bannedAfter

(***************************************************************************)
(* C20  A request that comes to the rate check of abuseMiddleware is       *)
(* rejected for rapid requests, and its address banned, exactly when more  *)
(* than RateLimit requests of the address came there within the 60 seconds *)
(* before it.                                                              *)
(***************************************************************************)
C20_RateLimitExact ==
  (/\ lastReq.seen
   /\ lastReq.reached
   /\ ~MatchesInjection(lastReq.path)
   /\ ~MatchesInjection(queryToString(lastReq.query))) =>
    ((/\ lastReq.outcome = "rejected"
      /\ lastReq.reason = "Rapid successive requests detected"
      /\ lastReq.bannedAfter)
       <=> lastReq.recentBefore > RateLimit)

(***************************************************************************)
(* C21  A request to a signup-like path that comes to the registration     *)
(* check of abuseMiddleware (no injection pattern, not over the rate       *)
(* limit), with any user agent, is rejected and its address banned exactly *)
(* when more than MAX_DEVICE_REGISTRATIONS_PER_IP devices were registered  *)
(* from that address within the hour before.                               *)
(***************************************************************************)
SignupLike(path) == includes(path, "/api/auth/signup") \/ includes(path, "/api/users")

C21_RegistrationLimit ==
  (/\ lastReq.seen
   /\ lastReq.reached
   /\ SignupLike(lastReq.path)
   /\ ~MatchesInjection(lastReq.path)
   /\ ~MatchesInjection(queryToString(lastReq.query))
   /\ lastReq.recentBefore <= RateLimit) =>
    ((lastReq.outcome = "rejected" /\ lastReq.bannedAfter)
       <=> lastReq.registrationsBefore > MAX_DEVICE_REGISTRATIONS_PER_IP)

(***************************************************************************)
(* C22  For every user and reward value, the reward vouchers of that value *)
(* issued to the user within any span of seven days are at most the        *)
(* reward's maxPerWeek, whatever checkRewards calls ran, one after another *)
(* or interleaved.                                                         *)
(***************************************************************************)
IssuedWithin(userId, value, from, to) ==
  Cardinality({c \in Codes :
                 /\ vouchers[c].exists
                 /\ vouchers[c].type = "reward"
                 /\ vouchers[c].userId = userId
                 /\ vouchers[c].value = value
                 /\ vouchers[c].createdAt >= from
                 /\ vouchers[c].createdAt <= to})

C22_MaxPerWeek ==
  \A userId \in UserIds : \A i \in 1..Len(DEFAULT_REWARDS) : \A c \in Codes :
    (vouchers[c].exists /\ vouchers[c].type = "reward") =>
      IssuedWithin(userId, DEFAULT_REWARDS[i].value, vouchers[c].createdAt - Week + 1,
                   vouchers[c].createdAt) <= DEFAULT_REWARDS[i].maxPerWeek

(***************************************************************************)
(* C23  A signup of an adult from a hardware identifier bound to a Device  *)
(* of a user with another e-mail is answered 409 'Device already           *)
(* registered' and changes no User, Device or Visit (nor anything else),   *)
(* whether its e-mail is new or that of a registered, unblocked guest.     *)
(***************************************************************************)
C23_DeviceAlreadyRegistered ==
  (/\ lastAuth.seen
   /\ lastAuth.route = "signup"
   /\ lastAuth.boundElsewhere
   /\ ~lastAuth.blockedBefore) =>
    /\ lastAuth.status = 409
    /\ lastAuth.error = "Device already registered"
    /\ ~lastAuth.changed

(***************************************************************************)
(* C24  After every successful visit (a signup, or a login from a new or a *)
(* known device) the Device of the visit is active and its lastSeen is the *)
(* time of the visit.                                                      *)
(***************************************************************************)
VisitSucceeded == lastAuth.seen /\ lastAuth.status \in {200, 201}

C24_VisitMarksDevice ==
  VisitSucceeded => lastAuth.activeAfter /\ lastAuth.seenNow

(***************************************************************************)
(* C28  A request under the e-mail of a registered guest succeeds (a guest *)
(* credential is minted, a visit counted) only if its date of birth is the *)
(* stored one, on /signup as on /login.                                    *)
(***************************************************************************)
C28_DateOfBirthRequired ==
  (VisitSucceeded /\ lastAuth.known) => lastAuth.dobMatched

(***************************************************************************)
(* C29  No signup or login from a device whose record is blocked succeeds  *)
(* or records a visit.                                                     *)
(***************************************************************************)
C29_BlockedDeviceRefused ==
  (lastAuth.seen /\ lastAuth.deviceBlockedBefore) =>
    /\ lastAuth.status \notin {200, 201}
    /\ ~lastAuth.created.visit

(***************************************************************************)
(* C25  In every reachable state each user owns at most maxDevices active  *)
(* devices, whatever logins ran, one after another or interleaved, from    *)
(* new devices or from known inactive ones.                                *)
(***************************************************************************)
C25_ActiveDeviceLimit ==
  \A userId \in UserIds : Cardinality(activeDevices(devices, userId)) <= maxDevices

(***************************************************************************)
(* C26  An address stays banned for BLOCK_DURATION after every ban: while  *)
(* a blockIp call for it lies less than BLOCK_DURATION back (its timer is  *)
(* still pending), isIpBlocked is true, whatever earlier bans ran out.     *)
(***************************************************************************)
BannedWithinDuration(ip) == \E timer \in timers : timer.ip = ip /\ timer.due > now

C26_BanLastsFullDuration ==
  \A ip \in Ips : BannedWithinDuration(ip) => isIpBlocked(ip, blockedIps)

(***************************************************************************)
(* C27  The sweep of cleanOldAttempts removes only failed attempts older   *)
(* than ATTEMPT_WINDOW: the request entries of every address younger than  *)
(* 60 seconds and the failed attempts inside the window are the same       *)
(* before and after it.                                                    *)
(***************************************************************************)
YoungRequests(store, ip, t) ==
  LET lastMinute(timestamp) == t - timestamp < Seconds(60000)
  IN SelectSeq(store[<<"requests", ip>>], lastMinute)

AttemptsInWindow(store, k, t) ==
  LET inWindow(attempt) == t - attempt.timestamp < ATTEMPT_WINDOW
  IN SelectSeq(store[k], inWindow)

C27_SweepKeepsRecent ==
  [][Sweep =>
       /\ \A ip \in Ips :
            YoungRequests(attemptStore', ip, now) = YoungRequests(attemptStore, ip, now)
       /\ \A k \in AttemptKeys :
            AttemptsInWindow(attemptStore', k, now) = AttemptsInWindow(attemptStore, k, now)]_vars

(***************************************************************************)
(* C30  The request of a client that follows the 302 to the portal with    *)
(* the same headers and user agent is not taken for a probe: it is passed  *)
(* through to the portal page, whichever rule made the request before a    *)
(* probe.                                                                  *)
(***************************************************************************)
C30_RedirectReachesPortal ==
  (lastProbe.seen /\ lastProbe.hops >= 1) =>
    /\ ~lastProbe.probe
    /\ lastProbe.response = NextMiddleware

====
